---- MODULE Spec2Model ----
(***************************************************************************)
(* A model of the AirControlBase Home Assistant integration:                *)
(*   - AirControlBaseAPI (custom_components/aircontrolbase/api.py): login,  *)
(*     control_device, get_devices, each a JSON attempt followed by a       *)
(*     form-encoded fallback;                                               *)
(*   - the config flow, the setup entry with its update coordinator, and    *)
(*     the climate entity that sit on top of it.                            *)
(*                                                                          *)
(* Python values are written as strings: "None" is Python's None, "" the   *)
(* empty string, "absent" a key a JSON object does not have.  The vendor's  *)
(* "code" field keeps its JSON type: "int0" is the number 0, "str0" the     *)
(* string "0", and so on.                                                   *)
(***************************************************************************)
EXTENDS Integers, Sequences, FiniteSets, TLC

VARIABLES
    api,        \* the AirControlBaseAPI instance: its private fields
    now,        \* int(time.time() * 1000) at this moment
    run,        \* the API call in progress, or the last one that finished
    hist,       \* history: the last login that returned, the last control_device call
    tc,         \* test_connection: where it stands and what it returned
    flow,       \* the config flow: its step, the form's errors, the entry created
    setup,      \* async_setup_entry: where it stands and how it ended
    hass,       \* hass.data[DOMAIN] and the entries forwarded to the climate platform
    coord,      \* the DataUpdateCoordinator: its data and its last refresh
    tasks,      \* the climate entities' service calls, in the order they were made
    cloud,      \* the vendor cloud's state of each device
    wire,       \* per device: the control requests sent so far
    view,       \* the properties of an entity as it last wrote them to the host
    verdict     \* a response and what the success tests of the client make of it

apiVars == <<api, now, run, hist>>
flowVars == <<tc, flow>>
setupVars == <<setup, hass, coord>>
climateVars == <<tasks, cloud, wire>>
readVars == <<view, verdict>>

vars == <<api, now, run, hist, tc, flow, setup, hass, coord, tasks, cloud, wire, view, verdict>>

-----------------------------------------------------------------------------
(* Bounds and program constants *)

\* How many seconds the clock may advance.
MaxTicks == 6

\* time.time() * 1000: milliseconds per second.
Second == 1000

\* const.py: DEFAULT_AVOID_REFRESH_STATUS_ON_UPDATE_IN_MS, and the default of
\* the constructor's avoid_refresh_status_on_update_in_ms.
DEFAULT_AVOID_REFRESH_STATUS_ON_UPDATE_IN_MS == 5000

StartTime == Second
MaxTime == StartTime + MaxTicks * Second

-----------------------------------------------------------------------------
(* Python helpers *)

\* bool(v) for the values a field of the client can hold.
Truthy(v) == v \notin {"None", ""}

\* dict.get(key): None when the key is absent.
PyGet(v) == IF v = "absent" THEN "None" ELSE v

\* a or b
PyOr(a, b) == IF Truthy(a) THEN a ELSE b

\* '; '.join(cookies)
RECURSIVE JoinCookies(_)
JoinCookies(cookies) ==
    IF cookies = <<>> THEN ""
    ELSE IF Len(cookies) = 1 THEN Head(cookies)
    ELSE Head(cookies) \o "; " \o JoinCookies(Tail(cookies))

-----------------------------------------------------------------------------
(* What the cloud can answer *)

Codes == {"int0", "str0", "int200", "str200", "int1", "absent"}

\* The success indicators of a body: its code, success is True, status == "success".
Indicators ==
    {[code |-> c, success |-> FALSE, statusF |-> FALSE] : c \in Codes}
    \cup {[code |-> "absent", success |-> TRUE, statusF |-> FALSE],
          [code |-> "absent", success |-> FALSE, statusF |-> TRUE]}

\* Where a login body carries a user id: result.id, user_id, userId.
IdShapes ==
    {[resultId |-> "absent", user_id |-> "absent", userId |-> "absent"],
     [resultId |-> "None",   user_id |-> "absent", userId |-> "absent"],
     [resultId |-> "u1",     user_id |-> "absent", userId |-> "absent"],
     [resultId |-> "absent", user_id |-> "u2",     userId |-> "absent"],
     [resultId |-> "absent", user_id |-> "absent", userId |-> "u2"],
     [resultId |-> "u1",     user_id |-> "u2",     userId |-> "absent"]}

\* The Set-Cookie headers of a response.
CookieLists == {<<>>, <<"sid=1">>, <<"sid=1", "tok=2">>}

\* A device record as the vendor lists it.
DeviceIds == {1, 2}

Device(d) ==
    [id |-> d, name |-> "ac", groupId |-> 10, deviceNumber |-> d, cid |-> 20, aid |-> 30,
     factTemp |-> 25, setTemp |-> 24, mode |-> "cool", power |-> "y", wind |-> "auto",
     swing |-> "n"]

\* result.areas of a device listing: each area may carry a "data" list.
Area(devices) == [hasData |-> TRUE, data |-> devices]
AreaWithoutData == [hasData |-> FALSE, data |-> <<>>]

AreaLists ==
    {<<>>,
     <<Area(<<Device(1)>>)>>,
     <<Area(<<Device(2)>>), AreaWithoutData, Area(<<Device(1)>>)>>,
     <<Area(<<Device(1), Device(2)>>), Area(<<>>)>>}

NoAreas == <<>>

\* status 0 stands for no response at all (asyncio.TimeoutError, a connection error).
Response(status, json, ind, ids, cookies, areas) ==
    [status |-> status, json |-> json, code |-> ind.code, success |-> ind.success,
     statusF |-> ind.statusF, resultId |-> ids.resultId, user_id |-> ids.user_id,
     userId |-> ids.userId, cookies |-> cookies, hasAreas |-> FALSE, areas |-> areas]

NoInd == [code |-> "absent", success |-> FALSE, statusF |-> FALSE]
NoIds == [resultId |-> "absent", user_id |-> "absent", userId |-> "absent"]

FailedResponses ==
    {Response(0, FALSE, NoInd, NoIds, <<>>, NoAreas),
     Response(500, FALSE, NoInd, NoIds, <<>>, NoAreas),
     Response(200, FALSE, NoInd, NoIds, <<>>, NoAreas)}

LoginResponses ==
    FailedResponses
    \cup {Response(200, TRUE, ind, ids, ck, NoAreas) :
            ind \in Indicators, ids \in IdShapes, ck \in CookieLists}

ControlResponses ==
    FailedResponses
    \cup {Response(200, TRUE, ind, NoIds, <<>>, NoAreas) : ind \in Indicators}

\* A listing body carries result.areas or not (hasAreas).
ListResponses ==
    FailedResponses
    \cup {[Response(200, TRUE, ind, NoIds, <<>>, ar) EXCEPT !.hasAreas = TRUE] :
            ind \in Indicators, ar \in AreaLists}
    \cup {Response(200, TRUE, ind, NoIds, <<>>, NoAreas) : ind \in Indicators}

-----------------------------------------------------------------------------
(* AirControlBaseAPI: the client's fields and the record of a call *)

\* __init__: the fields of a new client.
NewApi(email, password, avoid) ==
    [email |-> email, password |-> password, user_id |-> "None", session_id |-> "None",
     last_update_time |-> 0, avoid_refresh_status_on_update_in_ms |-> avoid]

\* The fields a call can change, as they were when the call began.
Pre(a) ==
    [user_id |-> a.user_id, session_id |-> a.session_id,
     last_update_time |-> a.last_update_time]

\* No call has been made yet.
NoRun(a) ==
    [op |-> "none", pc |-> "idle", via |-> "direct", result |-> "none", err |-> "",
     reqs |-> <<>>, answers |-> <<>>, ret |-> <<>>, pre |-> Pre(a), t0 |-> 0,
     data |-> [userId |-> "None"]]

\* t0 is the time at which a get_devices call was made (0 for the other calls,
\* which do not read the clock or, as control_device, store what they read).
CallTime(op, t) == IF op = "get_devices" THEN t ELSE 0

\* A call that has sent its JSON request and awaits the response.
Started(a, t, op, via, data, req) ==
    [op |-> op, pc |-> "json", via |-> via, result |-> "none", err |-> "",
     reqs |-> <<req>>, answers |-> <<>>, ret |-> <<>>, pre |-> Pre(a), t0 |-> CallTime(op, t),
     data |-> data]

\* A call that ended before sending anything.
Ended(a, t, op, via, result, err) ==
    [op |-> op, pc |-> "idle", via |-> via, result |-> result, err |-> err,
     reqs |-> <<>>, answers |-> <<>>, ret |-> <<>>, pre |-> Pre(a), t0 |-> CallTime(op, t),
     data |-> [userId |-> a.user_id]]

\* What the call keeps of a response: its status, whether the attempt took it
\* for a success, the devices it lists, and the areas of its body (result.areas,
\* empty when the body has none).
Answer(r, accepted, devices) ==
    [status |-> r.status, json |-> r.json, accepted |-> accepted, devices |-> devices,
     areas |-> IF r.status = 200 /\ r.json /\ r.hasAreas THEN r.areas ELSE <<>>]

\* One self._session.post(...): the endpoint, the encoding of the body (json= or
\* data=), the body, and the Cookie header if one is sent.
Request(endpoint, enc, data, hasCookie, cookie) ==
    [endpoint |-> endpoint, enc |-> enc, data |-> data, hasCookie |-> hasCookie,
     cookie |-> cookie]

\* headers["Cookie"] = self._session_id, only if self._session_id is truthy.
WithCookie(endpoint, enc, data, session_id) ==
    Request(endpoint, enc, data, Truthy(session_id),
            IF Truthy(session_id) THEN session_id ELSE "")

-----------------------------------------------------------------------------
(* login *)

\* The JSON attempt's test of the body.
LoginSuccessJson(r) ==
    \/ r.code \in {"int0", "str0", "int200", "str200"}
    \/ r.success
    \/ r.statusF

\* The form fallback's test of the body.
LoginSuccessForm(r) ==
    \/ r.code \in {"int0", "str0"}
    \/ r.success

\* The session id a login stores for the Set-Cookie headers of its response.
SessionOfCookies(cookies) ==
    IF cookies # <<>> THEN JoinCookies(cookies) ELSE ""

LoginData(a) ==
    [account |-> a.email, password |-> a.password,
     avoidRefreshStatusOnUpdateInMs |-> a.avoid_refresh_status_on_update_in_ms]

\* login, up to the first await: the JSON request is sent.
LoginCall(a, t, via) ==
    [api |-> a,
     run |-> Started(a, t, "login", via, LoginData(a),
                     Request("login", "json", LoginData(a), FALSE, ""))]

\* What the JSON attempt makes of response r: the ids it stores, or the exception.
LoginJsonAttempt(r) ==
    IF r.status = 0 THEN [ok |-> FALSE, err |-> "", user_id |-> "None", session_id |-> "None"]
    ELSE IF r.status # 200
    THEN [ok |-> FALSE, err |-> "HTTP error 500", user_id |-> "None", session_id |-> "None"]
    ELSE IF ~r.json
    THEN [ok |-> FALSE, err |-> "Invalid response format", user_id |-> "None",
          session_id |-> "None"]
    ELSE IF LoginSuccessJson(r)
    THEN IF r.resultId # "absent"
         THEN [ok |-> TRUE, err |-> "", user_id |-> r.resultId,
               session_id |-> SessionOfCookies(r.cookies)]
         ELSE IF r.user_id # "absent"
         THEN [ok |-> TRUE, err |-> "", user_id |-> r.user_id,
               session_id |-> SessionOfCookies(r.cookies)]
         ELSE IF r.userId # "absent"
         THEN [ok |-> TRUE, err |-> "", user_id |-> r.userId,
               session_id |-> SessionOfCookies(r.cookies)]
         ELSE [ok |-> FALSE, err |-> "No user ID in response", user_id |-> "None",
               session_id |-> "None"]
    ELSE [ok |-> FALSE, err |-> "Login failed", user_id |-> "None", session_id |-> "None"]

\* LoginJsonResponse with the fallback taken whatever the JSON attempt gave (the
\* retry placed after the try block instead of in its except branch).
LoginJsonResponse_AlwaysRetries(a, rn, r) ==
    LET o == LoginJsonAttempt(r) IN
    [api |-> IF o.ok THEN [a EXCEPT !.user_id = o.user_id, !.session_id = o.session_id]
             ELSE a,
     run |-> [rn EXCEPT !.answers = Append(@, Answer(r, o.ok, <<>>)),
                        !.pc = "form", !.err = o.err,
                        !.reqs = Append(@, Request("login", "form", rn.data, FALSE, ""))]]

\* The response to the JSON request arrives: login returns, or the except
\* branch sends the form request.
LoginJsonResponse(a, rn, r) ==
    LET o == LoginJsonAttempt(r) IN
    IF o.ok
    THEN [api |-> [a EXCEPT !.user_id = o.user_id, !.session_id = o.session_id],
          run |-> [rn EXCEPT !.answers = Append(@, Answer(r, o.ok, <<>>)),
                             !.pc = "idle", !.result = "returned"]]
    ELSE [api |-> a,
          run |-> [rn EXCEPT !.answers = Append(@, Answer(r, o.ok, <<>>)),
                             !.pc = "form", !.err = o.err,
                             !.reqs = Append(@, Request("login", "form", rn.data,
                                                        FALSE, ""))]]

\* What the form fallback makes of response r.
LoginFormAttempt(r) ==
    IF r.status = 200 /\ r.json /\ LoginSuccessForm(r)
    THEN [ok |-> TRUE, user_id |-> PyOr(PyGet(r.resultId), PyGet(r.user_id)),
          session_id |-> IF r.cookies # <<>> THEN JoinCookies(r.cookies) ELSE ""]
    ELSE [ok |-> FALSE, user_id |-> "None", session_id |-> "None"]

\* LoginFormResponse with the ids reset when the fallback fails too (a login
\* that starts by forgetting the old session).
LoginFormResponse_ClearsIds(a, rn, r) ==
    LET o == LoginFormAttempt(r) IN
    IF o.ok
    THEN [api |-> [a EXCEPT !.user_id = o.user_id, !.session_id = o.session_id],
          run |-> [rn EXCEPT !.answers = Append(@, Answer(r, o.ok, <<>>)),
                             !.pc = "idle", !.result = "returned"]]
    ELSE [api |-> [a EXCEPT !.user_id = "None", !.session_id = "None"],
          run |-> [rn EXCEPT !.answers = Append(@, Answer(r, o.ok, <<>>)),
                             !.pc = "idle", !.result = "raised",
                             !.err = "Authentication failed: " \o rn.err]]

\* The response to the form request arrives: login returns or raises.
LoginFormResponse(a, rn, r) ==
    LET o == LoginFormAttempt(r) IN
    IF o.ok
    THEN [api |-> [a EXCEPT !.user_id = o.user_id, !.session_id = o.session_id],
          run |-> [rn EXCEPT !.answers = Append(@, Answer(r, o.ok, <<>>)),
                             !.pc = "idle", !.result = "returned"]]
    ELSE [api |-> a,
          run |-> [rn EXCEPT !.answers = Append(@, Answer(r, o.ok, <<>>)),
                             !.pc = "idle", !.result = "raised",
                             !.err = "Authentication failed: " \o rn.err]]

-----------------------------------------------------------------------------
(* control_device *)

ControlSuccessJson(r) ==
    \/ r.code \in {"int0", "str0"}
    \/ r.success

ControlSuccessForm(r) == r.code = "int0"

\* ControlData with the two arguments of control_device taken in the wrong order.
ControlData_Swapped(a, control, operation) ==
    [userId |-> a.user_id, control |-> operation, operation |-> control]

ControlData(a, control, operation) ==
    [userId |-> a.user_id, control |-> control, operation |-> operation]

\* ControlDeviceCall with _last_update_time stored before the check of the user id.
ControlDeviceCall_StampsFirst(a, t, via, control, operation) ==
    IF ~Truthy(a.user_id)
    THEN [api |-> [a EXCEPT !.last_update_time = t],
          run |-> Ended(a, t, "control_device", via, "raised",
                        "Not authenticated - please login first")]
    ELSE [api |-> [a EXCEPT !.last_update_time = t],
          run |-> Started(a, t, "control_device", via, ControlData(a, control, operation),
                          WithCookie("control", "json",
                                     ControlData(a, control, operation), a.session_id))]

\* control_device, up to the first await.
ControlDeviceCall(a, t, via, control, operation) ==
    IF ~Truthy(a.user_id)
    THEN [api |-> a,
          run |-> Ended(a, t, "control_device", via, "raised",
                        "Not authenticated - please login first")]
    ELSE [api |-> [a EXCEPT !.last_update_time = t],
          run |-> Started(a, t, "control_device", via, ControlData(a, control, operation),
                          WithCookie("control", "json",
                                     ControlData(a, control, operation), a.session_id))]

ControlJsonAttempt(r) ==
    IF r.status = 0 THEN [ok |-> FALSE, err |-> ""]
    ELSE IF r.status # 200 THEN [ok |-> FALSE, err |-> "HTTP error 500"]
    ELSE IF ~r.json THEN [ok |-> FALSE, err |-> "Invalid response format"]
    ELSE IF ~ControlSuccessJson(r) THEN [ok |-> FALSE, err |-> "Control failed"]
    ELSE [ok |-> TRUE, err |-> ""]

\* ControlJsonResponse with the form request sent whatever the JSON attempt made
\* of its answer.
ControlJsonResponse_AlwaysResends(a, rn, r) ==
    LET o == ControlJsonAttempt(r) IN
    [api |-> a,
     run |-> [rn EXCEPT !.answers = Append(@, Answer(r, o.ok, <<>>)),
                        !.pc = "form", !.err = o.err,
                        !.reqs = Append(@, WithCookie("control", "form", rn.data,
                                                      a.session_id))]]

\* ControlJsonResponse with a form fallback that sends no Cookie header.
ControlJsonResponse_NoCookie(a, rn, r) ==
    LET o == ControlJsonAttempt(r) IN
    IF o.ok
    THEN [api |-> a,
          run |-> [rn EXCEPT !.answers = Append(@, Answer(r, o.ok, <<>>)),
                             !.pc = "idle", !.result = "returned"]]
    ELSE [api |-> a,
          run |-> [rn EXCEPT !.answers = Append(@, Answer(r, o.ok, <<>>)),
                             !.pc = "form", !.err = o.err,
                             !.reqs = Append(@, Request("control", "form", rn.data,
                                                        FALSE, ""))]]

ControlJsonResponse(a, rn, r) ==
    LET o == ControlJsonAttempt(r) IN
    IF o.ok
    THEN [api |-> a, run |-> [rn EXCEPT !.answers = Append(@, Answer(r, o.ok, <<>>)),
                             !.pc = "idle", !.result = "returned"]]
    ELSE [api |-> a,
          run |-> [rn EXCEPT !.answers = Append(@, Answer(r, o.ok, <<>>)),
                             !.pc = "form", !.err = o.err,
                             !.reqs = Append(@, WithCookie("control", "form", rn.data,
                                                           a.session_id))]]

ControlFormAttempt(r) == r.status = 200 /\ r.json /\ ControlSuccessForm(r)

\* ControlFormResponse with _last_update_time put back when the call raises.
ControlFormResponse_PutsTimeBack(a, rn, r) ==
    IF ControlFormAttempt(r)
    THEN [api |-> a, run |-> [rn EXCEPT !.answers = Append(@, Answer(r, ControlFormAttempt(r), <<>>)),
                             !.pc = "idle", !.result = "returned"]]
    ELSE [api |-> [a EXCEPT !.last_update_time = rn.pre.last_update_time],
          run |-> [rn EXCEPT !.answers = Append(@, Answer(r, ControlFormAttempt(r), <<>>)),
                             !.pc = "idle", !.result = "raised",
                             !.err = "Device control failed: " \o rn.err]]

ControlFormResponse(a, rn, r) ==
    IF ControlFormAttempt(r)
    THEN [api |-> a, run |-> [rn EXCEPT !.answers = Append(@, Answer(r, ControlFormAttempt(r), <<>>)),
                             !.pc = "idle", !.result = "returned"]]
    ELSE [api |-> a,
          run |-> [rn EXCEPT !.answers = Append(@, Answer(r, ControlFormAttempt(r), <<>>)),
                             !.pc = "idle", !.result = "raised",
                             !.err = "Device control failed: " \o rn.err]]

-----------------------------------------------------------------------------
(* get_devices *)

GetDevicesSuccessJson(r) ==
    \/ r.code \in {"int0", "str0"}
    \/ r.success

GetDevicesSuccessForm(r) == r.code = "int0"

\* ExtendAll with each area's devices put in front of those already collected.
RECURSIVE ExtendAll_Prepends(_)
ExtendAll_Prepends(areas) ==
    IF areas = <<>> THEN <<>>
    ELSE ExtendAll_Prepends(Tail(areas))
            \o (IF Head(areas).hasData THEN Head(areas).data ELSE <<>>)

\* all_devices.extend(area.get("data", [])) for each area, in order.
RECURSIVE ExtendAll(_)
ExtendAll(areas) ==
    IF areas = <<>> THEN <<>>
    ELSE (IF Head(areas).hasData THEN Head(areas).data ELSE <<>>) \o ExtendAll(Tail(areas))

\* The list a success body yields.
AllDevices(r) ==
    IF r.hasAreas /\ r.areas # <<>> THEN ExtendAll(r.areas) ELSE <<>>

\* The devices a response lists, whatever its success indicators say.
Listed(r) == IF r.status = 200 /\ r.json THEN AllDevices(r) ELSE <<>>

\* AvoidRefresh with a window that includes its end.
AvoidRefresh_Inclusive(a, t) ==
    /\ a.last_update_time > 0
    /\ t - a.last_update_time <= a.avoid_refresh_status_on_update_in_ms

\* The refresh is suppressed: a control_device call began less than
\* avoid_refresh_status_on_update_in_ms ago.
AvoidRefresh(a, t) ==
    /\ a.last_update_time > 0
    /\ t - a.last_update_time < a.avoid_refresh_status_on_update_in_ms

GetDevicesData(a) == [userId |-> a.user_id]

\* get_devices, up to the first await.
GetDevicesCall(a, t, via) ==
    IF AvoidRefresh(a, t)
    THEN [api |-> a, run |-> Ended(a, t, "get_devices", via, "returned", "")]
    ELSE IF ~Truthy(a.user_id)
    THEN [api |-> a,
          run |-> Ended(a, t, "get_devices", via, "raised",
                        "Not authenticated - please login first")]
    ELSE [api |-> a,
          run |-> Started(a, t, "get_devices", via, GetDevicesData(a),
                          WithCookie("getDetails", "json", GetDevicesData(a),
                                     a.session_id))]

GetDevicesJsonAttempt(r) ==
    IF r.status = 0 THEN [ok |-> FALSE, err |-> "", devices |-> <<>>]
    ELSE IF r.status # 200 THEN [ok |-> FALSE, err |-> "HTTP error 500", devices |-> <<>>]
    ELSE IF ~r.json THEN [ok |-> FALSE, err |-> "Invalid response format", devices |-> <<>>]
    ELSE IF GetDevicesSuccessJson(r) THEN [ok |-> TRUE, err |-> "", devices |-> AllDevices(r)]
    ELSE [ok |-> FALSE, err |-> "Failed to get devices", devices |-> <<>>]

GetDevicesJsonResponse(a, rn, r) ==
    LET o == GetDevicesJsonAttempt(r) IN
    IF o.ok
    THEN [api |-> a,
          run |-> [rn EXCEPT !.answers = Append(@, Answer(r, o.ok, Listed(r))),
                             !.pc = "idle", !.result = "returned", !.ret = o.devices]]
    ELSE [api |-> a,
          run |-> [rn EXCEPT !.answers = Append(@, Answer(r, o.ok, Listed(r))),
                             !.pc = "form", !.err = o.err,
                             !.reqs = Append(@, WithCookie("getDetails", "form", rn.data,
                                                           a.session_id))]]

GetDevicesFormAttempt(r) ==
    IF r.status = 200 /\ r.json /\ GetDevicesSuccessForm(r)
    THEN [ok |-> TRUE, devices |-> AllDevices(r)]
    ELSE [ok |-> FALSE, devices |-> <<>>]

GetDevicesFormResponse(a, rn, r) ==
    LET o == GetDevicesFormAttempt(r) IN
    IF o.ok
    THEN [api |-> a,
          run |-> [rn EXCEPT !.answers = Append(@, Answer(r, o.ok, Listed(r))),
                             !.pc = "idle", !.result = "returned", !.ret = o.devices]]
    ELSE [api |-> a,
          run |-> [rn EXCEPT !.answers = Append(@, Answer(r, o.ok, Listed(r))),
                             !.pc = "idle", !.result = "raised",
                             !.err = "Failed to get devices: " \o rn.err]]

-----------------------------------------------------------------------------
(* The success tests of the three operations, side by side *)

\* A response the tests have not been applied to.
NoVerdict ==
    [applied |-> FALSE, r |-> Response(0, FALSE, NoInd, NoIds, <<>>, NoAreas),
     login_json |-> FALSE, login_form |-> FALSE, control_json |-> FALSE,
     control_form |-> FALSE, list_json |-> FALSE, list_form |-> FALSE]

\* Whether each attempt of each operation takes the response r, a status and a
\* body, for a success: the tests of response.status and of the body's success
\* indicators (login's JSON attempt goes on to look for a user id).
Verdicts(r) ==
    [applied |-> TRUE, r |-> r,
     login_json |-> r.status = 200 /\ r.json /\ LoginSuccessJson(r),
     login_form |-> r.status = 200 /\ r.json /\ LoginSuccessForm(r),
     control_json |-> r.status = 200 /\ r.json /\ ControlSuccessJson(r),
     control_form |-> r.status = 200 /\ r.json /\ ControlSuccessForm(r),
     list_json |-> r.status = 200 /\ r.json /\ GetDevicesSuccessJson(r),
     list_form |-> r.status = 200 /\ r.json /\ GetDevicesSuccessForm(r)]

-----------------------------------------------------------------------------
(* test_connection *)

\* err is the message of an exception test_connection lets out ("" when none).
NoTestConnection ==
    [stage |-> "idle", result |-> "none", login |-> "none", list |-> "none", err |-> ""]

\* test_connection, up to the first await: login is called.
TestConnectionCall(a, t) ==
    [api |-> LoginCall(a, t, "test_connection").api,
     run |-> LoginCall(a, t, "test_connection").run,
     tc |-> [stage |-> "login", result |-> "none", login |-> "none", list |-> "none",
             err |-> ""]]

\* login has ended: on an exception test_connection returns False, otherwise
\* it calls get_devices.
TestConnectionAfterLogin(a, rn, t, c) ==
    IF rn.result = "raised"
    THEN [api |-> a, run |-> rn,
          tc |-> [c EXCEPT !.stage = "idle", !.result = "False", !.login = "raised"]]
    ELSE LET s == GetDevicesCall(a, t, "test_connection") IN
         [api |-> s.api, run |-> s.run,
          tc |-> [c EXCEPT !.stage = "get_devices", !.login = "returned"]]

\* TestConnectionAfterGetDevices with the list's outcome ignored (get_devices
\* called but its exception swallowed on its own).
TestConnectionAfterGetDevices_IgnoresList(a, rn, c) ==
    [api |-> a, run |-> rn,
     tc |-> [c EXCEPT !.stage = "idle", !.result = "True", !.list = rn.result]]

\* get_devices has ended: True if it returned, False if it raised.
TestConnectionAfterGetDevices(a, rn, c) ==
    IF rn.result = "raised"
    THEN [api |-> a, run |-> rn,
          tc |-> [c EXCEPT !.stage = "idle", !.result = "False", !.list = "raised"]]
    ELSE [api |-> a, run |-> rn,
          tc |-> [c EXCEPT !.stage = "idle", !.result = "True", !.list = "returned"]]

-----------------------------------------------------------------------------
(* AirControlBaseConfigFlow.async_step_user *)

NoInput == [email |-> "None", password |-> "None"]

\* step "init": the flow has shown nothing yet; "form": the form is shown with
\* errors; "testing": test_connection is awaited; "entry": the entry is created.
NoFlow ==
    [step |-> "init", user_input |-> NoInput, errors |-> [base |-> "absent"],
     entry |-> [title |-> "None", data |-> NoInput]]

\* async_step_user(None): the form, with no errors.
StepUserNoInput(f) ==
    [f EXCEPT !.step = "form", !.user_input = NoInput, !.errors = [base |-> "absent"]]

\* async_step_user(user_input), up to the await of test_connection: a client is
\* made for the credentials given.
StepUserCall(f, user_input, t) ==
    LET a == NewApi(user_input.email, user_input.password,
                    DEFAULT_AVOID_REFRESH_STATUS_ON_UPDATE_IN_MS)
        s == TestConnectionCall(a, t) IN
    [api |-> s.api, run |-> s.run, tc |-> s.tc,
     flow |-> [f EXCEPT !.step = "testing", !.user_input = user_input,
                        !.errors = [base |-> "absent"]]]

\* StepUserResult with test_connection not awaited: a coroutine object is truthy.
StepUserResult_NotAwaited(f, c) ==
    [f EXCEPT !.step = "entry",
              !.entry = [title |-> f.user_input.email, data |-> f.user_input]]

\* The messages of the client's exceptions in which "HTTP error" occurs.
HttpErrorMessages ==
    {"HTTP error 500", "Authentication failed: HTTP error 500",
     "Failed to get devices: HTTP error 500", "Device control failed: HTTP error 500"}

\* The messages in which "cannot connect" or "timeout" occurs, in any case of
\* letters: none of the client's (str(asyncio.TimeoutError()) is empty).
CannotConnectMessages == {}
TimeoutMessages == {}

\* The except branch of async_step_user: errors["base"] for the message of the
\* exception caught.
ErrorOfException(err) ==
    IF err \in HttpErrorMessages \/ err \in CannotConnectMessages THEN "cannot_connect"
    ELSE IF err \in TimeoutMessages THEN "timeout_connect"
    ELSE "invalid_auth"

\* test_connection has ended: the entry is created, or the form shown again
\* with the error of the else branch (test_connection returned False) or of the
\* except branch (it raised).
StepUserResult(f, c) ==
    IF c.result = "True"
    THEN [f EXCEPT !.step = "entry",
                   !.entry = [title |-> f.user_input.email, data |-> f.user_input]]
    ELSE IF c.result = "False"
    THEN [f EXCEPT !.step = "form", !.errors = [base |-> "invalid_auth"]]
    ELSE [f EXCEPT !.step = "form", !.errors = [base |-> ErrorOfException(c.err)]]

-----------------------------------------------------------------------------
(* async_setup_entry and the coordinator's update method *)

\* The methods class AirControlBaseAPI defines.
ApiMethods == {"__init__", "login", "control_device", "get_devices", "test_connection"}

NoUpdate == [result |-> "none", err |-> "", devices |-> <<>>]

\* async_update_data: api.ensure_authenticated(), then api.getDetails(); any
\* exception, an AttributeError for a method the client lacks included, is
\* raised again as UpdateFailed.
AsyncUpdateData(a) ==
    IF "ensure_authenticated" \notin ApiMethods
    THEN [result |-> "UpdateFailed",
          err |-> "Error fetching data: no attribute 'ensure_authenticated'",
          devices |-> <<>>]
    ELSE IF "getDetails" \notin ApiMethods
    THEN [result |-> "UpdateFailed",
          err |-> "Error fetching data: no attribute 'getDetails'",
          devices |-> <<>>]
    ELSE [result |-> "returned", err |-> "", devices |-> <<>>]

\* The host's call of async_setup_entry or async_unload_entry that is under way
\* or ended last: the entry, hass.data[DOMAIN] as the call found it (before),
\* what the platform unload answered, and how the call ended.
NoSetup == [op |-> "none", stage |-> "idle", entry_id |-> "None", before |-> {},
            unload_ok |-> "none", result |-> "none", err |-> "", update |-> NoUpdate]
NoHass == [data |-> {}, forwarded |-> {}]
NoCoordinator == [data |-> <<>>, last_update_success |-> TRUE]

\* entry.data.get(CONF_AVOID_REFRESH_STATUS_ON_UPDATE_IN_MS, DEFAULT_...)
AvoidOf(entry) ==
    IF entry.has_avoid THEN entry.avoid ELSE DEFAULT_AVOID_REFRESH_STATUS_ON_UPDATE_IN_MS

\* async_setup_entry, up to the await of api.login().
SetupEntryCall(entry, t) ==
    LET a == NewApi(entry.email, entry.password, AvoidOf(entry))
        s == LoginCall(a, t, "setup") IN
    [api |-> s.api, run |-> s.run,
     setup |-> [NoSetup EXCEPT !.op = "setup", !.stage = "login",
                               !.entry_id = entry.entry_id]]

\* SetupAfterLogin with the record stored before the first refresh.
SetupAfterLogin_StoresFirst(a, rn, st, h, c) ==
    IF rn.result = "raised"
    THEN [setup |-> [st EXCEPT !.stage = "idle", !.result = "raised", !.err = rn.err],
          hass |-> h, coord |-> c]
    ELSE LET u == AsyncUpdateData(a) IN
         IF u.result # "returned"
         THEN [setup |-> [st EXCEPT !.stage = "idle", !.result = "raised",
                                    !.err = "ConfigEntryNotReady", !.update = u],
               hass |-> [h EXCEPT !.data = @ \cup {st.entry_id}],
               coord |-> [NoCoordinator EXCEPT !.last_update_success = FALSE]]
         ELSE [setup |-> [st EXCEPT !.stage = "idle", !.result = "True", !.update = u],
               hass |-> [data |-> h.data \cup {st.entry_id},
                         forwarded |-> h.forwarded \cup {st.entry_id}],
               coord |-> [NoCoordinator EXCEPT !.data = u.devices]]

\* login has ended.  If it raised, so does async_setup_entry.  Otherwise the
\* coordinator is made and refreshed for the first time: a failed refresh
\* raises ConfigEntryNotReady, a successful one is followed by storing the
\* client and the coordinator in hass.data and forwarding to the platform.
SetupAfterLogin(a, rn, st, h, c) ==
    IF rn.result = "raised"
    THEN [setup |-> [st EXCEPT !.stage = "idle", !.result = "raised", !.err = rn.err],
          hass |-> h, coord |-> c]
    ELSE LET u == AsyncUpdateData(a) IN
         IF u.result # "returned"
         THEN [setup |-> [st EXCEPT !.stage = "idle", !.result = "raised",
                                    !.err = "ConfigEntryNotReady", !.update = u],
               hass |-> h,
               coord |-> [NoCoordinator EXCEPT !.last_update_success = FALSE]]
         ELSE [setup |-> [st EXCEPT !.stage = "idle", !.result = "True", !.update = u],
               hass |-> [data |-> h.data \cup {st.entry_id},
                         forwarded |-> h.forwarded \cup {st.entry_id}],
               coord |-> [NoCoordinator EXCEPT !.data = u.devices]]

\* async_unload_entry, up to the await of async_unload_platforms.
UnloadEntryCall(entry_id) ==
    [NoSetup EXCEPT !.op = "unload", !.stage = "platforms", !.entry_id = entry_id]

\* UnloadAfterPlatforms without the test of unload_ok.
UnloadAfterPlatforms_AlwaysPops(st, h, unload_ok) ==
    IF st.entry_id \notin h.data
    THEN [setup |-> [st EXCEPT !.stage = "idle", !.result = "raised", !.err = "KeyError",
                               !.unload_ok = IF unload_ok THEN "True" ELSE "False"],
          hass |-> h]
    ELSE [setup |-> [st EXCEPT !.stage = "idle",
                               !.result = IF unload_ok THEN "True" ELSE "False",
                               !.unload_ok = IF unload_ok THEN "True" ELSE "False"],
          hass |-> [h EXCEPT !.data = @ \ {st.entry_id}]]

\* The platform unload has answered unload_ok: if it is true the entry's record
\* is popped from hass.data[DOMAIN] (a KeyError if there is none); unload_ok is
\* returned.
UnloadAfterPlatforms(st, h, unload_ok) ==
    IF ~unload_ok
    THEN [setup |-> [st EXCEPT !.stage = "idle", !.result = "False",
                               !.unload_ok = "False"],
          hass |-> h]
    ELSE IF st.entry_id \notin h.data
    THEN [setup |-> [st EXCEPT !.stage = "idle", !.result = "raised", !.err = "KeyError",
                               !.unload_ok = "True"],
          hass |-> h]
    ELSE [setup |-> [st EXCEPT !.stage = "idle", !.result = "True", !.unload_ok = "True"],
          hass |-> [h EXCEPT !.data = @ \ {st.entry_id}]]

-----------------------------------------------------------------------------
(* AirControlBaseClimate: the entity of one device *)

HVACModes == {"off", "cool", "heat", "dry", "fan_only"}

mode_map(hvac_mode) ==
    CASE hvac_mode = "off" -> "off"
      [] hvac_mode = "cool" -> "cool"
      [] hvac_mode = "heat" -> "heat"
      [] hvac_mode = "dry" -> "dry"
      [] hvac_mode = "fan_only" -> "fan"

\* int(temperature), for a temperature given in tenths of a degree.
IntOf(tenths) == IF tenths >= 0 THEN tenths \div 10 ELSE -((-tenths) \div 10)

\* The arguments of a service call: the temperature (has_temperature says
\* whether ATTR_TEMPERATURE was given), the hvac mode, the fan mode, the swing mode.
NoArg ==
    [has_temperature |-> FALSE, temperature |-> 0, hvac_mode |-> "", fan_mode |-> "",
     swing_mode |-> ""]

\* The index of the first record with this id in the coordinator's data, 0 if
\* there is none.
IndexOf(data, id) ==
    IF \E i \in 1..Len(data) : data[i].id = id
    THEN CHOOSE i \in 1..Len(data) :
            /\ data[i].id = id
            /\ \A j \in 1..(i - 1) : data[j].id # id
    ELSE 0

\* self._device, for an entity whose device the coordinator lists.
DeviceOf(data, id) == data[IndexOf(data, id)]

\* self._device.get(field): None when the coordinator lists no record of the
\* device (self._device is then {}) or the record lacks the field.
DeviceGet(data, id, field) ==
    IF IndexOf(data, id) = 0 THEN "None" ELSE PyGet(DeviceOf(data, id)[field])

is_on(data, id) == DeviceGet(data, id, "power") = "y"

\* hvac_mode with the word the mode setter sends for FAN_ONLY.
hvac_mode_ReadsFan(data, id) ==
    LET mode == DeviceGet(data, id, "mode") IN
    IF ~is_on(data, id) THEN "off"
    ELSE IF mode = "cool" THEN "cool"
    ELSE IF mode = "heat" THEN "heat"
    ELSE IF mode = "fan" THEN "fan_only"
    ELSE IF mode = "dry" THEN "dry"
    ELSE "off"

hvac_mode(data, id) ==
    LET mode == DeviceGet(data, id, "mode") IN
    IF ~is_on(data, id) THEN "off"
    ELSE IF mode = "cool" THEN "cool"
    ELSE IF mode = "heat" THEN "heat"
    ELSE IF mode = "fan_only" THEN "fan_only"
    ELSE IF mode = "dry" THEN "dry"
    ELSE "off"

hvac_action(data, id) ==
    IF hvac_mode(data, id) = "off" THEN "off"
    ELSE IF hvac_mode(data, id) = "cool" THEN "cooling"
    ELSE IF hvac_mode(data, id) = "heat" THEN "heating"
    ELSE IF hvac_mode(data, id) = "dry" THEN "drying"
    ELSE "fan"

\* fan_mode without the translation of the vendor's 'mid'.
fan_mode_Untranslated(data, id) == DeviceGet(data, id, "wind")

fan_mode(data, id) ==
    IF DeviceGet(data, id, "wind") = "mid" THEN "medium" ELSE DeviceGet(data, id, "wind")

fan_modes == <<"auto", "low", "medium", "high">>

\* What the entity of device id hands to the host when it writes its state.
NoView ==
    [written |-> FALSE, id |-> 0, is_on |-> FALSE, hvac_mode |-> "off",
     hvac_action |-> "off", fan_mode |-> "None"]

WrittenState(data, id) ==
    [written |-> TRUE, id |-> id, is_on |-> is_on(data, id),
     hvac_mode |-> hvac_mode(data, id), hvac_action |-> hvac_action(data, id),
     fan_mode |-> fan_mode(data, id)]

\* The answer to the request a call awaits: none while the cloud has not handled
\* the request, then the response on its way back.
NoAnswer == [handled |-> FALSE, r |-> Response(0, FALSE, NoInd, NoIds, <<>>, NoAreas)]

\* A setter's call: the record it read when it began (base), the arguments it
\* handed to control_device (control, operation) and how many times it invoked
\* it, the client's call record (rn), whether it asked for a coordinator
\* refresh, and whether it let an exception out to the host; the coordinator's
\* record of the device when control_device ended (before) and when the setter
\* ended, the record it wrote its state from (after).
Task(kind, id, arg, base, invoked, control, operation, rn, propagated) ==
    [kind |-> kind, id |-> id, arg |-> arg, base |-> base, invoked |-> invoked,
     control |-> control, operation |-> operation, rn |-> rn,
     stage |-> IF rn.pc = "idle" THEN "done" ELSE "control",
     refresh |-> FALSE, propagated |-> propagated, answer |-> NoAnswer,
     before |-> base, after |-> base]

NoControl == [control |-> "none"]

\* async_set_temperature, up to the await of control_device.
SetTemperatureCall(a, t, data, id, arg) ==
    LET dev == DeviceOf(data, id)
        control == [id |-> dev.id, groupId |-> dev.groupId,
                    deviceNumber |-> dev.deviceNumber, cid |-> dev.cid, aid |-> dev.aid]
        operation == [dev EXCEPT !.setTemp = IntOf(arg.temperature)]
        s == ControlDeviceCall(a, t, "climate", control, operation) IN
    IF ~arg.has_temperature
    THEN [api |-> a,
          task |-> Task("set_temperature", id, arg, dev, 0, NoControl, dev, NoRun(a), FALSE)]
    ELSE [api |-> s.api,
          task |-> Task("set_temperature", id, arg, dev, 1, control, operation, s.run, FALSE)]

\* SetHvacModeCall without the fan speed "auto" for a device that was off.
SetHvacModeCall_KeepsWind(a, t, data, id, arg) ==
    LET dev == DeviceOf(data, id)
        withMode == [dev EXCEPT !.mode = mode_map(arg.hvac_mode)]
        operation ==
            IF arg.hvac_mode = "off" THEN [withMode EXCEPT !.power = "n"]
            ELSE [withMode EXCEPT !.power = "y"]
        control == [control |-> "mode"]
        s == ControlDeviceCall(a, t, "climate", control, operation) IN
    [api |-> s.api,
     task |-> Task("set_hvac_mode", id, arg, dev, 1, control, operation, s.run, FALSE)]

\* async_set_hvac_mode, up to the await of control_device.
SetHvacModeCall(a, t, data, id, arg) ==
    LET dev == DeviceOf(data, id)
        withMode == [dev EXCEPT !.mode = mode_map(arg.hvac_mode)]
        operation ==
            IF arg.hvac_mode = "off" THEN [withMode EXCEPT !.power = "n"]
            ELSE IF dev.power = "n" THEN [withMode EXCEPT !.power = "y", !.wind = "auto"]
            ELSE [withMode EXCEPT !.power = "y"]
        control == [control |-> "mode"]
        s == ControlDeviceCall(a, t, "climate", control, operation) IN
    [api |-> s.api,
     task |-> Task("set_hvac_mode", id, arg, dev, 1, control, operation, s.run, FALSE)]

\* SetFanModeCall without the test of fan_mode.
SetFanModeCall_NoTest(a, t, data, id, arg) ==
    LET dev == DeviceOf(data, id)
        api_mode == IF arg.fan_mode = "medium" THEN "mid" ELSE arg.fan_mode
        control == [id |-> dev.id]
        operation == [dev EXCEPT !.wind = api_mode]
        s == ControlDeviceCall(a, t, "climate", control, operation) IN
    [api |-> s.api,
     task |-> Task("set_fan_mode", id, arg, dev, 1, control, operation, s.run, FALSE)]

\* async_set_fan_mode, up to the await of control_device.
SetFanModeCall(a, t, data, id, arg) ==
    LET dev == DeviceOf(data, id)
        api_mode == IF arg.fan_mode = "medium" THEN "mid" ELSE arg.fan_mode
        control == [id |-> dev.id]
        operation == [dev EXCEPT !.wind = api_mode]
        s == ControlDeviceCall(a, t, "climate", control, operation) IN
    IF arg.fan_mode \notin {"low", "medium", "high", "auto"}
    THEN [api |-> a,
          task |-> Task("set_fan_mode", id, arg, dev, 0, NoControl, dev, NoRun(a), FALSE)]
    ELSE [api |-> s.api,
          task |-> Task("set_fan_mode", id, arg, dev, 1, control, operation, s.run, FALSE)]

\* SetSwingModeCall if the entity had a swing setter in the manner of its fan setter.
SetSwingModeCall_Translates(a, t, data, id, arg) ==
    LET dev == DeviceOf(data, id)
        control == [id |-> dev.id]
        operation == [dev EXCEPT !.swing = arg.swing_mode]
        s == ControlDeviceCall(a, t, "climate", control, operation) IN
    [api |-> s.api,
     task |-> Task("set_swing_mode", id, arg, dev, 1, control, operation, s.run, FALSE)]

\* A set-swing call: the class defines neither async_set_swing_mode nor
\* set_swing_mode and its supported features leave out SWING_MODE, so the call
\* ends in the host's ClimateEntity, which raises NotImplementedError.
SetSwingModeCall(a, t, data, id, arg) ==
    [api |-> a,
     task |-> Task("set_swing_mode", id, arg, DeviceOf(data, id), 0, NoControl,
                   DeviceOf(data, id), NoRun(a), TRUE)]

\* The setter that a service call of the host reaches.
SetterCall(a, t, data, id, call) ==
    CASE call.kind = "set_temperature" -> SetTemperatureCall(a, t, data, id, call.arg)
      [] call.kind = "set_hvac_mode" -> SetHvacModeCall(a, t, data, id, call.arg)
      [] call.kind = "set_fan_mode" -> SetFanModeCall(a, t, data, id, call.arg)
      [] OTHER -> SetSwingModeCall(a, t, data, id, call.arg)

\* The setter's writes to self._device after control_device has returned.
LocalUpdate(tk, dev) ==
    CASE tk.kind = "set_temperature" ->
            [dev EXCEPT !.setTemp = IntOf(tk.arg.temperature), !.power = "y"]
      [] tk.kind = "set_hvac_mode" ->
            [dev EXCEPT !.mode = mode_map(tk.arg.hvac_mode),
                        !.power = tk.operation.power,
                        !.wind = tk.operation.wind]
      [] tk.kind = "set_fan_mode" ->
            [dev EXCEPT !.wind = IF tk.arg.fan_mode = "medium" THEN "mid"
                                 ELSE tk.arg.fan_mode]
      [] OTHER -> [dev EXCEPT !.swing = tk.arg.swing_mode]

\* SetterAfterControl with the writes to self._device made whether or not
\* control_device raised (the local update placed in a finally clause).
SetterAfterControl_UpdatesAnyway(tk, rn, data) ==
    LET updated == [data EXCEPT ![IndexOf(data, tk.id)] = LocalUpdate(tk, @)] IN
    IF rn.pc # "idle"
    THEN [task |-> [tk EXCEPT !.rn = rn, !.answer = NoAnswer], data |-> data]
    ELSE IF rn.result = "returned"
    THEN [task |-> [tk EXCEPT !.rn = rn, !.answer = NoAnswer, !.stage = "done",
                              !.refresh = TRUE,
                              !.before = DeviceOf(data, tk.id),
                              !.after = DeviceOf(updated, tk.id)],
          data |-> updated]
    ELSE [task |-> [tk EXCEPT !.rn = rn, !.answer = NoAnswer, !.stage = "done",
                              !.before = DeviceOf(data, tk.id),
                              !.after = DeviceOf(updated, tk.id)],
          data |-> updated]

\* The setter after control_device has ended (rn): on a return it writes to the
\* coordinator's record and asks for a refresh; an exception it logs.
SetterAfterControl(tk, rn, data) ==
    LET updated == [data EXCEPT ![IndexOf(data, tk.id)] = LocalUpdate(tk, @)] IN
    IF rn.pc # "idle"
    THEN [task |-> [tk EXCEPT !.rn = rn, !.answer = NoAnswer], data |-> data]
    ELSE IF rn.result = "returned"
    THEN [task |-> [tk EXCEPT !.rn = rn, !.answer = NoAnswer, !.stage = "done",
                              !.refresh = TRUE,
                              !.before = DeviceOf(data, tk.id),
                              !.after = DeviceOf(updated, tk.id)],
          data |-> updated]
    ELSE [task |-> [tk EXCEPT !.rn = rn, !.answer = NoAnswer, !.stage = "done",
                              !.before = DeviceOf(data, tk.id),
                              !.after = DeviceOf(data, tk.id)],
          data |-> data]

-----------------------------------------------------------------------------
(* The vendor cloud and the requests on their way to it *)

\* The cloud's state of each device, as its listing reports it.
NoCloud == [d \in DeviceIds |-> Device(d)]

\* A control answer that reports the command as carried out.
CloudCarriedOut(r) == r.status = 200 /\ r.json /\ r.code \in {"int0", "int200"}

\* The cloud handles a control request and answers it with r: a command it
\* carries out replaces its state of the device the operation names.
CloudHandle(cl, req, r) ==
    LET op == req.data.operation IN
    IF CloudCarriedOut(r) /\ "id" \in DOMAIN op /\ op.id \in DOMAIN cl
    THEN [cl EXCEPT ![op.id] = op]
    ELSE cl

\* Per device: how many control requests were sent for it, the operation_data
\* of the setter that sent the last one, whether every answer so far was taken
\* for a success by the client, and whether a request was ever sent while
\* another one for the device was unanswered.
NoWire ==
    [d \in DeviceIds |->
        [count |-> 0, last |-> Device(d), accepted |-> TRUE, overlapped |-> FALSE]]

WireSent(w, id, operation, inFlight) ==
    [w EXCEPT ![id] = [@ EXCEPT !.count = @ + 1, !.last = operation,
                                !.overlapped = @ \/ inFlight]]

WireAnswered(w, id, accepted) ==
    [w EXCEPT ![id] = [@ EXCEPT !.accepted = @ /\ accepted]]

-----------------------------------------------------------------------------
(* The client on its own: a caller makes one call after another, the cloud
   answers each request as it likes, and the clock advances. *)

\* The control and operation dicts of a direct control_device call.
ApiControls ==
    {[id |-> d, groupId |-> 10, deviceNumber |-> d, cid |-> 20, aid |-> 30] : d \in DeviceIds}

ApiOperations ==
    {[mode |-> "off", power |-> "n", wind |-> "auto", setTemp |-> 24, swing |-> "n"]}

\* login: the last login that returned, with the user id it stored and the
\* Set-Cookie headers it was answered with.  control: the last control_device
\* call, the device it names, whether it has returned, and whether it returned
\* within the second in which it began.
NoHist ==
    [login |-> [any |-> FALSE, user_id |-> "None", cookies |-> <<>>],
     control |-> [any |-> FALSE, id |-> 0, returned |-> FALSE, instant |-> FALSE,
                  stamped |-> FALSE]]

\* The history after the step s of a call, taken at time t on response r.
HistAfter(h, s, r, t) ==
    IF s.run.pc = "idle" /\ s.run.result = "returned" /\ s.run.op = "login"
    THEN [h EXCEPT !.login = [any |-> TRUE, user_id |-> s.api.user_id,
                              cookies |-> r.cookies]]
    ELSE IF s.run.pc = "idle" /\ s.run.result = "returned" /\ s.run.op = "control_device"
    THEN [h EXCEPT !.control.returned = TRUE,
                   !.control.instant = (t = s.api.last_update_time)]
    ELSE h

\* The history after a control_device call on the device control names began
\* with the step s: stamped says whether it stored _last_update_time.
HistControl(h, control, s) ==
    [h EXCEPT !.control = [any |-> TRUE, id |-> control.id, returned |-> FALSE,
                           instant |-> FALSE, stamped |-> s.run.reqs # <<>>]]

InitApi ==
    /\ api = NewApi("a@x", "pw", DEFAULT_AVOID_REFRESH_STATUS_ON_UPDATE_IN_MS)
    /\ now = StartTime
    /\ run = NoRun(api)
    /\ hist = NoHist
    /\ tc = NoTestConnection
    /\ flow = NoFlow
    /\ setup = NoSetup
    /\ hass = NoHass
    /\ coord = NoCoordinator
    /\ tasks = <<>>
    /\ cloud = NoCloud
    /\ wire = NoWire
    /\ view = NoView
    /\ verdict = NoVerdict

Tick ==
    /\ now < MaxTime
    /\ now' = now + Second
    /\ UNCHANGED <<api, run, hist, tc, flow, setupVars, climateVars, readVars>>

Login ==
    /\ run.pc = "idle"
    /\ LET s == LoginCall(api, now, "direct") IN
        /\ api' = s.api
        /\ run' = s.run
    /\ UNCHANGED <<now, hist, tc, flow, setupVars, climateVars, readVars>>

LoginJson ==
    /\ run.op = "login" /\ run.pc = "json"
    /\ \E r \in LoginResponses :
        LET s == LoginJsonResponse(api, run, r) IN
        /\ api' = s.api
        /\ run' = s.run
        /\ hist' = HistAfter(hist, s, r, now)
    /\ UNCHANGED <<now, tc, flow, setupVars, climateVars, readVars>>

LoginForm ==
    /\ run.op = "login" /\ run.pc = "form"
    /\ \E r \in LoginResponses :
        LET s == LoginFormResponse(api, run, r) IN
        /\ api' = s.api
        /\ run' = s.run
        /\ hist' = HistAfter(hist, s, r, now)
    /\ UNCHANGED <<now, tc, flow, setupVars, climateVars, readVars>>

ControlDevice ==
    /\ run.pc = "idle"
    /\ \E control \in ApiControls, operation \in ApiOperations :
        LET s == ControlDeviceCall(api, now, "direct", control, operation) IN
        /\ api' = s.api
        /\ run' = s.run
        /\ hist' = HistControl(hist, control, s)
    /\ UNCHANGED <<now, tc, flow, setupVars, climateVars, readVars>>

ControlJson ==
    /\ run.op = "control_device" /\ run.pc = "json"
    /\ \E r \in ControlResponses :
        LET s == ControlJsonResponse(api, run, r) IN
        /\ api' = s.api
        /\ run' = s.run
        /\ hist' = HistAfter(hist, s, r, now)
    /\ UNCHANGED <<now, tc, flow, setupVars, climateVars, readVars>>

ControlForm ==
    /\ run.op = "control_device" /\ run.pc = "form"
    /\ \E r \in ControlResponses :
        LET s == ControlFormResponse(api, run, r) IN
        /\ api' = s.api
        /\ run' = s.run
        /\ hist' = HistAfter(hist, s, r, now)
    /\ UNCHANGED <<now, tc, flow, setupVars, climateVars, readVars>>

GetDevices ==
    /\ run.pc = "idle"
    /\ LET s == GetDevicesCall(api, now, "direct") IN
        /\ api' = s.api
        /\ run' = s.run
    /\ UNCHANGED <<now, hist, tc, flow, setupVars, climateVars, readVars>>

GetDevicesJson ==
    /\ run.op = "get_devices" /\ run.pc = "json"
    /\ \E r \in ListResponses :
        LET s == GetDevicesJsonResponse(api, run, r) IN
        /\ api' = s.api
        /\ run' = s.run
    /\ UNCHANGED <<now, hist, tc, flow, setupVars, climateVars, readVars>>

GetDevicesForm ==
    /\ run.op = "get_devices" /\ run.pc = "form"
    /\ \E r \in ListResponses :
        LET s == GetDevicesFormResponse(api, run, r) IN
        /\ api' = s.api
        /\ run' = s.run
    /\ UNCHANGED <<now, hist, tc, flow, setupVars, climateVars, readVars>>

NextApi ==
    \/ Tick
    \/ Login \/ LoginJson \/ LoginForm
    \/ ControlDevice \/ ControlJson \/ ControlForm
    \/ GetDevices \/ GetDevicesJson \/ GetDevicesForm

SpecApi == InitApi /\ [][NextApi]_vars

-----------------------------------------------------------------------------
(* Claims about the client *)

\* The call recorded in run has ended by returning / by raising.
Returned(op) == run.op = op /\ run.pc = "idle" /\ run.result = "returned"
Raised(op) == run.op = op /\ run.pc = "idle" /\ run.result = "raised"

\* Device d is in the list ds.
Lists(ds, d) == \E i \in DOMAIN ds : ds[i].id = d

\* C1: whenever login returns without raising, through the JSON attempt or
\* through the form fallback, _user_id is not None and _session_id is not None.
C1_LoginStoresIds ==
    Returned("login") => api.user_id # "None" /\ api.session_id # "None"

\* C2: with the default avoid-refresh setting, after a login, a get_devices
\* call made 2 seconds after a control_device call on a device that returned
\* at once returns a list holding that device, the cloud answering every
\* listing request it gets with a success that lists the device.
C2_ListsControlledDevice ==
    ( /\ run.op = "get_devices" /\ run.pc = "idle"
      /\ hist.login.any
      /\ hist.control.returned /\ hist.control.instant
      /\ api.avoid_refresh_status_on_update_in_ms
            = DEFAULT_AVOID_REFRESH_STATUS_ON_UPDATE_IN_MS
      /\ run.t0 - run.pre.last_update_time = 2 * Second
      /\ \A i \in DOMAIN run.answers :
            run.answers[i].accepted /\ Lists(run.answers[i].devices, hist.control.id) )
    => run.result = "returned" /\ Lists(run.ret, hist.control.id)

\* C5: control_device and get_devices send no request to the control or the
\* listing endpoint while the client holds no user id; control_device then
\* raises 'Not authenticated' having sent nothing and leaves _last_update_time
\* as it was.
C5_NoRequestWithoutUserId ==
    /\ \A i \in DOMAIN run.reqs :
          run.reqs[i].endpoint \in {"control", "getDetails"}
              => run.pre.user_id # "None" /\ api.user_id # "None"
    /\ (run.op = "control_device" /\ run.pre.user_id = "None")
          => /\ Raised("control_device")
             /\ run.err = "Not authenticated - please login first"
             /\ run.reqs = <<>>
             /\ api.last_update_time = run.pre.last_update_time

\* A control_device call made with no user id, after an earlier one had set
\* _last_update_time.
C5_Witness ==
    /\ Raised("control_device")
    /\ run.pre.user_id = "None"
    /\ run.pre.last_update_time > 0

\* C6: every control and listing request, JSON or form, carries as userId the
\* user id the most recent login that returned has stored, and a Cookie header
\* equal to the '; '-joined Set-Cookie headers of that login's response when
\* there were any, and no Cookie header when there were none.
C6_RequestsCarryLoginState ==
    \A i \in DOMAIN run.reqs :
        LET q == run.reqs[i] IN
        q.endpoint \in {"control", "getDetails"}
            => /\ hist.login.any
               /\ q.data.userId = hist.login.user_id
               /\ hist.login.cookies # <<>>
                    => q.hasCookie /\ q.cookie = JoinCookies(hist.login.cookies)
               /\ hist.login.cookies = <<>> => ~q.hasCookie

\* A login answered with two Set-Cookie headers, then a control_device call
\* that went on to its form fallback.
C6_Witness ==
    /\ run.op = "control_device"
    /\ Len(run.reqs) = 2
    /\ run.reqs[2].enc = "form"
    /\ run.reqs[2].cookie = "sid=1; tok=2"
    /\ Len(hist.login.cookies) = 2

\* C7: login sends the JSON request first and the form request only after the
\* JSON attempt failed, at most one request of each encoding, and raises
\* 'Authentication failed' only when both attempts failed.
C7_LoginJsonThenForm ==
    run.op = "login" =>
        /\ Len(run.reqs) \in {1, 2}
        /\ run.reqs[1].enc = "json"
        /\ Len(run.reqs) = 2
              => /\ run.reqs[2].enc = "form"
                 /\ Len(run.answers) >= 1
                 /\ ~run.answers[1].accepted
        /\ run.result = "raised"
              => /\ Len(run.reqs) = 2 /\ Len(run.answers) = 2
                 /\ ~run.answers[1].accepted /\ ~run.answers[2].accepted
                 /\ \E e \in {"", "HTTP error 500", "Invalid response format",
                              "No user ID in response", "Login failed"} :
                        run.err = "Authentication failed: " \o e
        /\ run.result = "returned" => run.answers[Len(run.answers)].accepted

\* A login that raised after both of its requests.
C7_Witness ==
    /\ Raised("login")
    /\ Len(run.reqs) = 2
    /\ run.answers[1].status = 200 /\ run.answers[1].json

\* The get_devices call recorded in run was made less than the avoid-refresh
\* time after the most recent control_device call.  If that call stored
\* _last_update_time, the client held its time when get_devices began; if it
\* did not, it was made at StartTime or later.
SinceControlBelowAvoid ==
    IF hist.control.stamped
    THEN run.t0 - run.pre.last_update_time < api.avoid_refresh_status_on_update_in_ms
    ELSE run.t0 - StartTime < api.avoid_refresh_status_on_update_in_ms

C14_WitnessSuppressed ==
    /\ Returned("get_devices")
    /\ hist.control.stamped
    /\ run.t0 - run.pre.last_update_time = 4 * Second
    /\ run.reqs = <<>> /\ run.ret = <<>>

\* The most recent control_device call sent its requests and raised.
LastControlFailed == hist.control.stamped /\ ~hist.control.returned

\* C15 as stated: a control_device call that raised after both attempts failed
\* leaves the client's fields as they were before the call, and the next
\* get_devices call of a client with a user id queries the cloud.
C15_FailedControlLeavesState ==
    /\ (Raised("control_device") /\ Len(run.answers) = 2) =>
            /\ api.user_id = run.pre.user_id
            /\ api.session_id = run.pre.session_id
            /\ api.last_update_time = run.pre.last_update_time
    /\ (run.op = "get_devices" /\ LastControlFailed /\ Truthy(run.pre.user_id)) =>
            Len(run.reqs) >= 1

\* C15, amended: a control_device call that raised after both attempts failed
\* leaves _user_id and _session_id as they were, but has stored the time of the
\* call in _last_update_time, so the suppression window runs as after a call
\* that succeeded: a get_devices call within it sends nothing and returns the
\* empty list.  Only a call that raised 'Not authenticated' leaves every field
\* as it was.
C15_FailedControlStartsWindow ==
    /\ Raised("control_device") =>
            /\ api.user_id = run.pre.user_id
            /\ api.session_id = run.pre.session_id
            /\ IF run.err = "Not authenticated - please login first"
               THEN /\ run.reqs = <<>>
                    /\ api.last_update_time = run.pre.last_update_time
               ELSE /\ Len(run.reqs) = 2 /\ Len(run.answers) = 2
                    /\ api.last_update_time >= StartTime
                    /\ api.last_update_time >= run.pre.last_update_time
                    /\ api.last_update_time <= now
    /\ ( /\ run.op = "get_devices" /\ LastControlFailed
         /\ run.t0 - run.pre.last_update_time
                < api.avoid_refresh_status_on_update_in_ms ) =>
            /\ run.reqs = <<>>
            /\ Returned("get_devices")
            /\ run.ret = <<>>

\* The first control_device call of a client raised after two requests, and the
\* get_devices call made two seconds later returned the empty list unasked.
C15_Witness ==
    /\ Returned("get_devices")
    /\ LastControlFailed
    /\ Truthy(run.pre.user_id)
    /\ run.t0 - run.pre.last_update_time = 2 * Second
    /\ run.reqs = <<>>

\* What the JSON attempt of control_device can raise.
ControlJsonErrors == {"", "HTTP error 500", "Invalid response format", "Control failed"}

\* C16: control_device sends its form request only after the JSON attempt
\* failed and at most two requests per call, both with the same body; it returns
\* when either attempt is accepted and raises 'Device control failed' when both
\* fail; a command whose JSON request was answered with HTTP 200 and an accepted
\* body is not sent a second time.
C16_ControlJsonThenForm ==
    run.op = "control_device" =>
        /\ Len(run.reqs) <= 2
        /\ \A i \in DOMAIN run.reqs : run.reqs[i].endpoint = "control"
        /\ Len(run.reqs) >= 1 => run.reqs[1].enc = "json"
        /\ Len(run.reqs) = 2 =>
            /\ run.reqs[2].enc = "form"
            /\ run.reqs[2].data = run.reqs[1].data
            /\ Len(run.answers) >= 1
            /\ ~run.answers[1].accepted
        /\ (Len(run.answers) >= 1 /\ run.answers[1].accepted) =>
            /\ run.answers[1].status = 200 /\ run.answers[1].json
            /\ Len(run.reqs) = 1
            /\ Returned("control_device")
        /\ Returned("control_device") =>
            /\ Len(run.answers) = Len(run.reqs)
            /\ run.answers[Len(run.answers)].accepted
        /\ (Raised("control_device") /\ run.reqs # <<>>) =>
            /\ Len(run.answers) = 2
            /\ ~run.answers[1].accepted /\ ~run.answers[2].accepted
            /\ \E e \in ControlJsonErrors : run.err = "Device control failed: " \o e
        /\ (run.pc = "idle" /\ Len(run.answers) = 2 /\ ~run.answers[2].accepted) =>
            Raised("control_device")

\* A call whose JSON request was answered with HTTP 500 has returned on the
\* answer to its form request.
C16_Witness ==
    /\ Returned("control_device")
    /\ Len(run.reqs) = 2
    /\ run.answers[1].status = 500
    /\ run.answers[2].accepted

\* A call has raised after its two requests were both answered with HTTP 200
\* and a body it does not accept.
C16_WitnessRaised ==
    /\ Raised("control_device")
    /\ Len(run.answers) = 2
    /\ run.answers[1].status = 200 /\ run.answers[1].json
    /\ run.answers[2].status = 200 /\ run.answers[2].json
    /\ run.err = "Device control failed: Control failed"

\* C18: a login call that raises leaves _user_id and _session_id exactly as
\* they were before the call; a failed re-login neither clears nor replaces the
\* credentials an earlier successful login obtained.
C18_FailedLoginKeepsCredentials ==
    Raised("login") =>
        /\ api.user_id = run.pre.user_id
        /\ api.session_id = run.pre.session_id

\* A re-login of a client that holds a user id and a session cookie raised
\* after both of its requests were answered.
C18_Witness ==
    /\ Raised("login")
    /\ Truthy(run.pre.user_id)
    /\ Truthy(run.pre.session_id)
    /\ Len(run.answers) = 2
    /\ api.user_id = run.pre.user_id

\* A re-login raised on a body that passed the JSON attempt's success test but
\* held no user id.
C18_WitnessNoUserId ==
    /\ Raised("login")
    /\ Truthy(run.pre.user_id)
    /\ run.err = "Authentication failed: No user ID in response"

\* The 'data' lists of the first n areas, one after the other.
RECURSIVE DataUpTo(_, _)
DataUpTo(areas, n) ==
    IF n = 0 THEN <<>>
    ELSE DataUpTo(areas, n - 1) \o (IF areas[n].hasData THEN areas[n].data ELSE <<>>)

\* The last response a call received.
LastAnswer == run.answers[Len(run.answers)]

C19_WitnessNoAreas ==
    /\ Returned("get_devices")
    /\ run.reqs # <<>>
    /\ LastAnswer.areas = <<>>
    /\ run.ret = <<>>

-----------------------------------------------------------------------------
(* The config flow: the user opens the form and submits credentials; each
   submission makes a client and awaits its test_connection. *)

UserInputs ==
    {[email |-> "a@x", password |-> "pw"], [email |-> "b@x", password |-> "bad"]}

InitFlow == InitApi

\* async_step_user(None), at the start of a flow.
StepUserOpen ==
    /\ flow.step \in {"init", "entry"}
    /\ flow' = StepUserNoInput(NoFlow)
    /\ UNCHANGED <<api, now, run, hist, tc, setupVars, climateVars, readVars>>

\* async_step_user(user_input).
StepUserSubmit ==
    /\ flow.step \in {"init", "form"}
    /\ \E user_input \in UserInputs :
        LET s == StepUserCall(flow, user_input, now) IN
        /\ api' = s.api
        /\ run' = s.run
        /\ tc' = s.tc
        /\ flow' = s.flow
    /\ hist' = NoHist
    /\ UNCHANGED <<now, setupVars, climateVars, readVars>>

TestConnectionLoginDone ==
    /\ tc.stage = "login" /\ run.op = "login" /\ run.pc = "idle"
    /\ LET s == TestConnectionAfterLogin(api, run, now, tc) IN
        /\ api' = s.api
        /\ run' = s.run
        /\ tc' = s.tc
    /\ UNCHANGED <<now, hist, flow, setupVars, climateVars, readVars>>

TestConnectionGetDevicesDone ==
    /\ tc.stage = "get_devices" /\ run.op = "get_devices" /\ run.pc = "idle"
    /\ LET s == TestConnectionAfterGetDevices(api, run, tc) IN
        /\ api' = s.api
        /\ run' = s.run
        /\ tc' = s.tc
    /\ UNCHANGED <<now, hist, flow, setupVars, climateVars, readVars>>

StepUserDone ==
    /\ flow.step = "testing" /\ tc.stage = "idle" /\ tc.result # "none"
    /\ flow' = StepUserResult(flow, tc)
    /\ UNCHANGED <<api, now, run, hist, tc, setupVars, climateVars, readVars>>

NextFlow ==
    \/ StepUserOpen \/ StepUserSubmit \/ StepUserDone
    \/ TestConnectionLoginDone \/ TestConnectionGetDevicesDone
    \/ LoginJson \/ LoginForm
    \/ GetDevicesJson \/ GetDevicesForm

SpecFlow == InitFlow /\ [][NextFlow]_vars

\* C4: the config flow creates the entry only when test_connection returned
\* True for the credentials of the entry, a login and a device listing having
\* both returned; a submission that ends otherwise creates no entry and shows
\* the form again with errors['base'] set.
C4_EntryOnlyAfterTestConnection ==
    /\ flow.step = "entry"
          => /\ tc.result = "True" /\ tc.login = "returned" /\ tc.list = "returned"
             /\ Returned("get_devices") /\ hist.login.any
             /\ flow.entry.data = flow.user_input
             /\ flow.entry.data.email = api.email
             /\ flow.entry.data.password = api.password
    /\ (flow.step = "form" /\ flow.user_input # NoInput)
          => /\ tc.result = "False"
             /\ flow.entry.data = NoInput
             /\ flow.errors.base \notin {"absent", "None", ""}
    /\ flow.step \in {"init", "testing"} => flow.entry.data = NoInput

\* An entry created for the second pair of credentials.
C4_Witness ==
    /\ flow.step = "entry"
    /\ flow.entry.data = [email |-> "b@x", password |-> "bad"]

\* A submission that ended with the form shown again.
C4_WitnessForm ==
    /\ flow.step = "form"
    /\ flow.user_input # NoInput
    /\ tc.login = "returned" /\ tc.list = "raised"

\* test_connection has ended.
TestConnectionEnded == tc.stage = "idle" /\ tc.login # "none"

\* C20: test_connection never raises; it returns True exactly when its login
\* call and its following get_devices call both completed without raising, and
\* False in every other case.
C20_TestConnectionTrueIffBoth ==
    TestConnectionEnded =>
        /\ tc.result \in {"True", "False"}
        /\ run.via = "test_connection" /\ run.pc = "idle"
        /\ tc.result = "True"
            <=> (tc.login = "returned" /\ run.op = "get_devices"
                    /\ run.result = "returned")
        /\ tc.result = "False"
            <=> (run.result = "raised"
                    /\ \/ tc.login = "raised" /\ run.op = "login"
                       \/ tc.login = "returned" /\ run.op = "get_devices")

\* test_connection returned False because get_devices raised after a login that
\* returned.
C20_Witness ==
    /\ TestConnectionEnded
    /\ tc.result = "False"
    /\ tc.login = "returned"
    /\ run.op = "get_devices" /\ run.result = "raised"

\* test_connection returned True.
C20_WitnessTrue ==
    /\ TestConnectionEnded
    /\ tc.result = "True"
    /\ run.op = "get_devices" /\ run.result = "returned"

\* test_connection returned False because login raised; get_devices was not
\* called.
C20_WitnessLoginRaised ==
    /\ TestConnectionEnded
    /\ tc.result = "False"
    /\ tc.login = "raised" /\ tc.list = "none"
    /\ run.op = "login"

\* A submission ended in failure: the form is shown again with an error.
ValidationFailed ==
    /\ flow.step = "form" /\ flow.errors.base # "absent"
    /\ tc.stage = "idle" /\ tc.result # "none"

\* The call that made the validation fail raised because the cloud answered
\* its JSON request with an HTTP error status.
FailedOnHttpError == run.result = "raised" /\ run.err \in HttpErrorMessages

\* The call that made the validation fail raised after its JSON request got no
\* response within the timeout.
FailedOnTimeout ==
    run.result = "raised" /\ run.answers # <<>> /\ run.answers[1].status = 0

\* C21: the config flow tells the failure kinds apart: errors['base'] is
\* 'cannot_connect' when the validation failed on an HTTP error status,
\* 'timeout_connect' when it failed on a timeout, and 'invalid_auth' only
\* otherwise.
C21_TellsFailuresApart ==
    ValidationFailed =>
        /\ FailedOnHttpError => flow.errors.base = "cannot_connect"
        /\ FailedOnTimeout => flow.errors.base = "timeout_connect"
        /\ ~FailedOnHttpError /\ ~FailedOnTimeout => flow.errors.base = "invalid_auth"

\* What the flow does instead (C21): test_connection returns False for every
\* failure, so the form shows 'invalid_auth' whatever the kind.
C21_AlwaysInvalidAuth ==
    ValidationFailed => tc.result = "False" /\ flow.errors.base = "invalid_auth"

\* The form shows 'invalid_auth' after a login whose requests were both
\* answered with HTTP 500.
C21_WitnessHttpError ==
    /\ ValidationFailed
    /\ FailedOnHttpError
    /\ run.op = "login"
    /\ \A i \in 1..Len(run.answers) : run.answers[i].status = 500
    /\ flow.errors.base = "invalid_auth"

\* The form shows 'invalid_auth' after a login whose requests both timed out.
C21_WitnessTimeout ==
    /\ ValidationFailed
    /\ FailedOnTimeout
    /\ run.op = "login"
    /\ \A i \in 1..Len(run.answers) : run.answers[i].status = 0
    /\ flow.errors.base = "invalid_auth"

-----------------------------------------------------------------------------
(* Setting up config entries: the host calls async_setup_entry for an entry
   and, after a failure, may call it again. *)

ConfigEntries ==
    {[entry_id |-> "e1", email |-> "a@x", password |-> "pw", has_avoid |-> FALSE,
      avoid |-> 0],
     [entry_id |-> "e2", email |-> "b@x", password |-> "pw", has_avoid |-> TRUE,
      avoid |-> 2 * Second]}

InitSetup == InitApi

SetupEntry ==
    /\ setup.stage = "idle"
    /\ \E entry \in ConfigEntries :
        /\ entry.entry_id \notin hass.data
        /\ LET s == SetupEntryCall(entry, now) IN
            /\ api' = s.api
            /\ run' = s.run
            /\ setup' = [s.setup EXCEPT !.before = hass.data]
    /\ hist' = NoHist
    /\ UNCHANGED <<now, flowVars, hass, coord, climateVars, readVars>>

SetupLoginDone ==
    /\ setup.stage = "login" /\ run.op = "login" /\ run.pc = "idle"
    /\ LET s == SetupAfterLogin(api, run, setup, hass, coord) IN
        /\ setup' = s.setup
        /\ hass' = s.hass
        /\ coord' = s.coord
    /\ UNCHANGED <<apiVars, flowVars, climateVars, readVars>>

NextSetup ==
    \/ SetupEntry \/ SetupLoginDone
    \/ LoginJson \/ LoginForm

SpecSetup == InitSetup /\ [][NextSetup]_vars

\* C3: when the client has logged in and the cloud answers the listing request
\* with a success, the coordinator's update method returns the device list
\* instead of raising UpdateFailed.
C3_RefreshReturnsDevices ==
    ( /\ setup.update.result # "none"
      /\ Returned("login")
      /\ Truthy(api.user_id) )
    => setup.update.result = "returned"

\* A setup that ended stored the entry's record and forwarded to the platform
\* only if login and the first refresh both succeeded, and one that ended by
\* raising left hass.data and the forwarded entries as it found them.
SetupEnded == setup.op = "setup" /\ setup.stage = "idle"

\* C13: async_setup_entry stores the entry's api and coordinator and forwards
\* to the climate platform only after api.login and the first refresh have
\* both succeeded; if login raises or the first refresh fails, the error
\* propagates and nothing is stored for the entry.
C13_StoresOnlyAfterLoginAndRefresh ==
    /\ \A id \in hass.data \cup hass.forwarded :
        /\ id \in hass.data /\ id \in hass.forwarded
        /\ SetupEnded /\ setup.entry_id = id =>
            /\ Returned("login")
            /\ setup.update.result = "returned"
            /\ setup.result = "True"
    /\ SetupEnded /\ (Raised("login") \/ setup.update.result = "UpdateFailed") =>
        /\ setup.result = "raised"
        /\ setup.err # ""
        /\ setup.entry_id \notin hass.data \cup hass.forwarded
        /\ hass.data = setup.before

\* Two setups have ended by raising: the login of one raised, the other's login
\* returned and its first refresh failed.
C13_Witness ==
    /\ SetupEnded
    /\ Returned("login")
    /\ setup.update.result = "UpdateFailed"
    /\ setup.err = "ConfigEntryNotReady"
    /\ hass.data = {}

C13_WitnessLogin ==
    /\ SetupEnded
    /\ Raised("login")
    /\ setup.result = "raised"
    /\ hass.data = {}

-----------------------------------------------------------------------------
(* Unloading config entries: the host calls async_unload_entry for an entry it
   has loaded, that is, one whose setup stored a record; entries it has not
   loaded it may set up. *)

LoadedEntries == SUBSET {entry.entry_id : entry \in ConfigEntries}

InitUnload ==
    /\ api = NewApi("a@x", "pw", DEFAULT_AVOID_REFRESH_STATUS_ON_UPDATE_IN_MS)
    /\ now = StartTime
    /\ run = NoRun(api)
    /\ hist = NoHist
    /\ tc = NoTestConnection
    /\ flow = NoFlow
    /\ setup = NoSetup
    /\ hass \in {[data |-> ids, forwarded |-> ids] : ids \in LoadedEntries}
    /\ coord = NoCoordinator
    /\ tasks = <<>>
    /\ cloud = NoCloud
    /\ wire = NoWire
    /\ view = NoView
    /\ verdict = NoVerdict

UnloadEntry ==
    /\ setup.stage = "idle"
    /\ \E entry \in ConfigEntries :
        /\ entry.entry_id \in hass.data
        /\ setup' = [UnloadEntryCall(entry.entry_id) EXCEPT !.before = hass.data]
    /\ UNCHANGED <<apiVars, flowVars, hass, coord, climateVars, readVars>>

\* async_unload_platforms answers: on success the host has unloaded the
\* platform's entities of the entry.
UnloadPlatformsDone ==
    /\ setup.stage = "platforms"
    /\ \E unload_ok \in BOOLEAN :
        LET s == UnloadAfterPlatforms(setup, hass, unload_ok) IN
        /\ setup' = s.setup
        /\ hass' = [s.hass EXCEPT !.forwarded =
                        IF unload_ok THEN @ \ {setup.entry_id} ELSE @]
    /\ UNCHANGED <<apiVars, flowVars, coord, climateVars, readVars>>

NextUnload ==
    \/ UnloadEntry \/ UnloadPlatformsDone
    \/ SetupEntry \/ SetupLoginDone
    \/ LoginJson \/ LoginForm

SpecUnload == InitUnload /\ [][NextUnload]_vars

UnloadEnded == setup.op = "unload" /\ setup.stage = "idle"

\* C12: async_unload_entry removes the entry's record from hass.data[DOMAIN]
\* exactly when the platform unload succeeded, and returns the platform unload's
\* result; when the platform unload fails the record stays; the records of the
\* other entries are never touched.
C12_UnloadPopsOnSuccess ==
    UnloadEnded =>
        /\ setup.entry_id \in setup.before
        /\ setup.result = setup.unload_ok
        /\ setup.unload_ok = "True" => setup.entry_id \notin hass.data
        /\ setup.unload_ok = "False" => setup.entry_id \in hass.data
        /\ hass.data \ {setup.entry_id} = setup.before \ {setup.entry_id}

\* With two entries loaded, the platform unload of one failed and its record
\* stayed; with two loaded, the unload of one succeeded and the other stayed.
C12_Witness ==
    /\ UnloadEnded
    /\ setup.before = {"e1", "e2"}
    /\ setup.entry_id = "e1"
    /\ setup.unload_ok = "True"
    /\ hass.data = {"e2"}

C12_WitnessFailed ==
    /\ UnloadEnded
    /\ setup.before = {"e1", "e2"}
    /\ setup.unload_ok = "False"
    /\ hass.data = {"e1", "e2"}

-----------------------------------------------------------------------------
(* The climate entities in service: the host calls the setters of the entities,
   the calls run as concurrent tasks, and the coordinator refreshes.  The
   entities are taken as constructed over a coordinator that holds a device
   list, with a client that a returned login has left. *)

MaxCalls == 2

ClimateData == <<Device(1), [Device(2) EXCEPT !.power = "n", !.wind = "low"]>>

ClimateApi == NewApi("a@x", "pw", DEFAULT_AVOID_REFRESH_STATUS_ON_UPDATE_IN_MS)

\* The client after a login answered on the JSON attempt with an id and a cookie,
\* and after a login answered on the form fallback with a success that names no id.
ClimateApis ==
    {LoginJsonResponse(ClimateApi, LoginCall(ClimateApi, StartTime, "setup").run,
        Response(200, TRUE, [NoInd EXCEPT !.code = "int0"],
                 [NoIds EXCEPT !.resultId = "u1"], <<"sid=1">>, NoAreas)).api,
     LoginFormResponse(ClimateApi,
        LoginJsonResponse(ClimateApi, LoginCall(ClimateApi, StartTime, "setup").run,
            Response(500, FALSE, NoInd, NoIds, <<>>, NoAreas)).run,
        Response(200, TRUE, [NoInd EXCEPT !.code = "int0"], NoIds, <<>>, NoAreas)).api}

ClimateCalls ==
    {[kind |-> "set_temperature", arg |-> [NoArg EXCEPT !.has_temperature = TRUE,
                                                         !.temperature = 225]],
     [kind |-> "set_temperature", arg |-> NoArg]}
    \cup {[kind |-> "set_hvac_mode", arg |-> [NoArg EXCEPT !.hvac_mode = m]] :
            m \in HVACModes}
    \cup {[kind |-> "set_fan_mode", arg |-> [NoArg EXCEPT !.fan_mode = f]] :
            f \in {"auto", "low", "medium", "high", "turbo"}}
    \cup {[kind |-> "set_swing_mode", arg |-> [NoArg EXCEPT !.swing_mode = "y"]]}

ClimateResponses ==
    {Response(500, FALSE, NoInd, NoIds, <<>>, NoAreas),
     Response(200, TRUE, [NoInd EXCEPT !.code = "int0"], NoIds, <<>>, NoAreas),
     Response(200, TRUE, [NoInd EXCEPT !.code = "int200"], NoIds, <<>>, NoAreas)}

InitClimate ==
    /\ api \in ClimateApis
    /\ now = StartTime
    /\ run = NoRun(api)
    /\ hist = NoHist
    /\ tc = NoTestConnection
    /\ flow = NoFlow
    /\ setup = NoSetup
    /\ hass = NoHass
    /\ coord = [NoCoordinator EXCEPT !.data = ClimateData]
    /\ tasks = <<>>
    /\ cloud = [d \in DeviceIds |-> DeviceOf(ClimateData, d)]
    /\ wire = [d \in DeviceIds |-> [NoWire[d] EXCEPT !.last = DeviceOf(ClimateData, d)]]
    /\ view = NoView
    /\ verdict = NoVerdict

\* A control request for device id is unanswered.
InFlight(ts, id) == \E i \in 1..Len(ts) : ts[i].id = id /\ ts[i].stage = "control"

\* The host calls a setter of the entity of device id.
ServiceCall ==
    /\ Len(tasks) < MaxCalls
    /\ \E id \in DeviceIds, call \in ClimateCalls :
        /\ IndexOf(coord.data, id) # 0
        /\ LET s == SetterCall(api, now, coord.data, id, call) IN
            /\ api' = s.api
            /\ tasks' = Append(tasks, s.task)
            /\ wire' = IF s.task.stage = "control"
                       THEN WireSent(wire, id, s.task.operation, InFlight(tasks, id))
                       ELSE wire
    /\ UNCHANGED <<now, run, hist, flowVars, setupVars, cloud, readVars>>

\* The cloud handles the request of call i and answers it.
CloudAnswers ==
    \E i \in 1..Len(tasks), r \in ClimateResponses :
        /\ tasks[i].stage = "control" /\ ~tasks[i].answer.handled
        /\ cloud' = CloudHandle(cloud, tasks[i].rn.reqs[Len(tasks[i].rn.reqs)], r)
        /\ tasks' = [tasks EXCEPT ![i].answer = [handled |-> TRUE, r |-> r]]
        /\ UNCHANGED <<apiVars, flowVars, setupVars, wire, readVars>>

\* The answer to the JSON request of call i arrives.
SetterJson ==
    \E i \in 1..Len(tasks) :
        /\ tasks[i].stage = "control" /\ tasks[i].rn.pc = "json" /\ tasks[i].answer.handled
        /\ LET s == ControlJsonResponse(api, tasks[i].rn, tasks[i].answer.r)
               u == SetterAfterControl(tasks[i], s.run, coord.data)
               w == WireAnswered(wire, tasks[i].id, s.run.result = "returned") IN
            /\ api' = s.api
            /\ tasks' = [tasks EXCEPT ![i] = u.task]
            /\ coord' = [coord EXCEPT !.data = u.data]
            /\ wire' = IF u.task.stage = "control"
                       THEN WireSent(w, tasks[i].id, tasks[i].operation,
                                     InFlight([tasks EXCEPT ![i].stage = "done"],
                                              tasks[i].id))
                       ELSE w
        /\ UNCHANGED <<now, run, hist, flowVars, setup, hass, cloud, readVars>>

\* The answer to the form request of call i arrives.
SetterForm ==
    \E i \in 1..Len(tasks) :
        /\ tasks[i].stage = "control" /\ tasks[i].rn.pc = "form" /\ tasks[i].answer.handled
        /\ LET s == ControlFormResponse(api, tasks[i].rn, tasks[i].answer.r)
               u == SetterAfterControl(tasks[i], s.run, coord.data) IN
            /\ api' = s.api
            /\ tasks' = [tasks EXCEPT ![i] = u.task]
            /\ coord' = [coord EXCEPT !.data = u.data]
            /\ wire' = WireAnswered(wire, tasks[i].id, s.run.result = "returned")
        /\ UNCHANGED <<now, run, hist, flowVars, setup, hass, cloud, readVars>>

\* The coordinator refreshes, on its interval or on a setter's request: the
\* update method raises UpdateFailed and the data stay as they are.
CoordinatorRefresh ==
    /\ AsyncUpdateData(api).result = "UpdateFailed"
    /\ coord' = [coord EXCEPT !.last_update_success = FALSE]
    /\ UNCHANGED <<apiVars, flowVars, setup, hass, climateVars, readVars>>

NextClimate ==
    \/ ServiceCall \/ CloudAnswers \/ SetterJson \/ SetterForm
    \/ CoordinatorRefresh

SpecClimate == InitClimate /\ [][NextClimate]_vars

\* A call of one of the three setters with an argument the setter can use.
ValidCall(tk) ==
    \/ tk.kind = "set_temperature" /\ tk.arg.has_temperature
    \/ tk.kind = "set_hvac_mode" /\ tk.arg.hvac_mode \in HVACModes
    \/ tk.kind = "set_fan_mode" /\ tk.arg.fan_mode \in {"auto", "low", "medium", "high"}

\* The fields of the record that the call asks to change.
Requested(tk) ==
    CASE tk.kind = "set_temperature" -> {"setTemp"}
      [] tk.kind = "set_hvac_mode" ->
            IF tk.arg.hvac_mode # "off" /\ tk.base.power = "n"
            THEN {"mode", "power", "wind"} ELSE {"mode", "power"}
      [] tk.kind = "set_fan_mode" -> {"wind"}
      [] OTHER -> {"swing"}

\* The vendor's word for an hvac mode, as the mode setter sends it.
VendorMode(m) == IF m = "fan_only" THEN "fan" ELSE m

\* What the requested fields are to hold.
Encoded(tk) ==
    CASE tk.kind = "set_temperature" ->
            /\ tk.operation.setTemp * 10 <= tk.arg.temperature
            /\ tk.arg.temperature < tk.operation.setTemp * 10 + 10
      [] tk.kind = "set_hvac_mode" ->
            /\ tk.operation.mode = VendorMode(tk.arg.hvac_mode)
            /\ tk.operation.power = (IF tk.arg.hvac_mode = "off" THEN "n" ELSE "y")
            /\ "wind" \in Requested(tk) => tk.operation.wind = "auto"
      [] tk.kind = "set_fan_mode" ->
            tk.operation.wind = (IF tk.arg.fan_mode = "medium" THEN "mid"
                                 ELSE tk.arg.fan_mode)
      [] OTHER -> FALSE

\* C9: a call of set temperature, set mode or set fan speed with a valid
\* argument invokes control_device exactly once, with an operation that is the
\* device's coordinator record as the call found it, except for the requested
\* fields, which hold their vendor encoding: setTemp the integer part of the
\* temperature; mode and power, and wind "auto" when a device that was off is
\* switched on; wind with "medium" sent as "mid".  Every request the invocation
\* sends carries that control and operation.
C9_OneInvocationCopyOfRecord ==
    \A i \in 1..Len(tasks) :
        LET tk == tasks[i] IN
        ValidCall(tk) =>
            /\ tk.invoked = 1
            /\ tk.rn.op = "control_device"
            /\ tk.rn.via = "climate"
            /\ \A k \in 1..Len(tk.rn.reqs) :
                /\ tk.rn.reqs[k].endpoint = "control"
                /\ tk.rn.reqs[k].data.operation = tk.operation
                /\ tk.rn.reqs[k].data.control = tk.control
            /\ DOMAIN tk.operation = DOMAIN tk.base
            /\ \A f \in DOMAIN tk.base \ Requested(tk) : tk.operation[f] = tk.base[f]
            /\ Encoded(tk)

\* A mode call that switched on a device that was off, with a fan speed other
\* than "auto", has sent its request, and a fan call for "medium" has returned.
C9_Witness ==
    /\ Len(tasks) = 2
    /\ tasks[1].kind = "set_hvac_mode" /\ tasks[1].arg.hvac_mode = "heat"
    /\ tasks[1].base.power = "n" /\ tasks[1].base.wind = "low"
    /\ Len(tasks[1].rn.reqs) = 1
    /\ tasks[1].rn.reqs[1].data.operation.wind = "auto"
    /\ tasks[2].kind = "set_fan_mode" /\ tasks[2].arg.fan_mode = "medium"
    /\ tasks[2].stage = "done" /\ tasks[2].rn.result = "returned"
    /\ tasks[2].operation.wind = "mid"

\* C10 as stated: a set-swing call on an entity leads to a control_device
\* request whose operation carries the requested swing value.
C10_SwingTranslated ==
    \A i \in 1..Len(tasks) :
        (tasks[i].kind = "set_swing_mode" /\ tasks[i].stage = "done") =>
            /\ tasks[i].invoked >= 1
            /\ \E k \in 1..Len(tasks[i].rn.reqs) :
                tasks[i].rn.reqs[k].data.operation.swing = tasks[i].arg.swing_mode

\* C10, amended: the entity translates set temperature, set mode and set fan
\* speed, but not set swing: a set-swing call invokes control_device not at
\* all, sends no request, asks for no refresh and ends in the host's
\* NotImplementedError; the swing value of a device's record stays as the
\* coordinator got it, and the operations of the other setters pass it on.
C10_SwingNotTranslated ==
    /\ \A i \in 1..Len(tasks) :
        tasks[i].kind = "set_swing_mode" =>
            /\ tasks[i].invoked = 0
            /\ tasks[i].rn.reqs = <<>>
            /\ tasks[i].stage = "done"
            /\ ~tasks[i].refresh
            /\ tasks[i].propagated
    /\ \A i \in 1..Len(tasks) :
        tasks[i].kind # "set_swing_mode" =>
            \A k \in 1..Len(tasks[i].rn.reqs) :
                tasks[i].rn.reqs[k].data.operation.swing
                    = DeviceOf(ClimateData, tasks[i].id).swing
    /\ \A d \in DeviceIds :
        DeviceOf(coord.data, d).swing = DeviceOf(ClimateData, d).swing

\* A set-swing call for "y" on a device whose swing is "n" has ended, and a
\* temperature call on the same device has then sent a request.
C10_Witness ==
    /\ Len(tasks) = 2
    /\ tasks[1].kind = "set_swing_mode" /\ tasks[1].arg.swing_mode = "y"
    /\ tasks[1].base.swing = "n" /\ tasks[1].stage = "done"
    /\ tasks[2].kind = "set_temperature" /\ tasks[2].id = tasks[1].id
    /\ Len(tasks[2].rn.reqs) = 1
    /\ tasks[2].rn.reqs[1].data.operation.swing = "n"

\* All control requests for device d have been answered, there was at least
\* one, and the client took every answer for a success.
AllSucceeded(d) ==
    /\ wire[d].count >= 1
    /\ ~InFlight(tasks, d)
    /\ wire[d].accepted

\* C8 as stated: when the control requests for a device have all succeeded, the
\* cloud's state of the device is the operation payload of the request sent last.
C8_LastSentWins ==
    \A d \in DeviceIds : AllSucceeded(d) => cloud[d] = wire[d].last

\* C8, amended: when the control requests for a device have all succeeded, the
\* cloud's state of the device is the operation payload of one of the setters
\* that sent them, and it is that of the request sent last if no request for the
\* device was sent while another one for it was unanswered.
C8_LastHandledWins ==
    \A d \in DeviceIds :
        AllSucceeded(d) =>
            /\ \E i \in 1..Len(tasks) :
                /\ tasks[i].id = d
                /\ tasks[i].rn.result = "returned"
                /\ cloud[d] = tasks[i].operation
            /\ ~wire[d].overlapped => cloud[d] = wire[d].last

\* Two calls on one device with different operations, one after the other, have
\* both succeeded, and the cloud holds the operation of the second.
C8_Witness ==
    /\ Len(tasks) = 2
    /\ tasks[1].id = tasks[2].id
    /\ tasks[1].kind = "set_temperature" /\ tasks[2].kind = "set_fan_mode"
    /\ tasks[1].operation # tasks[2].operation
    /\ AllSucceeded(tasks[1].id)
    /\ wire[tasks[1].id].count = 2
    /\ ~wire[tasks[1].id].overlapped
    /\ cloud[tasks[1].id] = tasks[2].operation

\* The setter of call tk ended after control_device returned.
SetterSucceeded(tk) == tk.stage = "done" /\ tk.invoked = 1 /\ tk.rn.result = "returned"

\* The properties the entity of call tk read when the setter wrote its state,
\* from the record as the setter left it.
ReadAfter(tk) == WrittenState(<<tk.after>>, tk.id)

\* C22: for every mode m of hvac_modes, after async_set_hvac_mode(m) ended
\* with a successful control request, and before the next refresh, the
\* entity's hvac_mode is m.
C22_HvacModeRoundTrip ==
    \A i \in 1..Len(tasks) :
        tasks[i].kind = "set_hvac_mode" /\ SetterSucceeded(tasks[i])
            => ReadAfter(tasks[i]).hvac_mode = tasks[i].arg.hvac_mode

\* What holds instead (C22): the round trip holds for OFF, COOL, HEAT and DRY;
\* after FAN_ONLY the record's mode is 'fan' and the entity reports OFF.
C22_RoundTripButFanOnly ==
    \A i \in 1..Len(tasks) :
        tasks[i].kind = "set_hvac_mode" /\ SetterSucceeded(tasks[i])
            => /\ tasks[i].arg.hvac_mode # "fan_only"
                    => ReadAfter(tasks[i]).hvac_mode = tasks[i].arg.hvac_mode
               /\ tasks[i].arg.hvac_mode = "fan_only"
                    => /\ tasks[i].after.mode = "fan" /\ tasks[i].after.power = "y"
                       /\ ReadAfter(tasks[i]).hvac_mode = "off"

\* async_set_hvac_mode(FAN_ONLY) succeeded and the entity reports OFF.
C22_WitnessFanOnly ==
    \E i \in 1..Len(tasks) :
        /\ tasks[i].kind = "set_hvac_mode" /\ SetterSucceeded(tasks[i])
        /\ tasks[i].arg.hvac_mode = "fan_only"
        /\ ReadAfter(tasks[i]).hvac_mode = "off"

\* The vendor's word for a fan mode.
VendorWind(f) == IF f = "medium" THEN "mid" ELSE f

\* C23: for every f of fan_modes, after async_set_fan_mode(f) ended with a
\* successful control request, and before the next refresh, fan_mode is f,
\* while the value in every request sent and the value stored in the record is
\* 'mid' for 'medium' and f otherwise.
C23_FanModeRoundTrip ==
    \A i \in 1..Len(tasks) :
        (/\ tasks[i].kind = "set_fan_mode" /\ SetterSucceeded(tasks[i])
         /\ \E k \in 1..Len(fan_modes) : fan_modes[k] = tasks[i].arg.fan_mode)
            => /\ ReadAfter(tasks[i]).fan_mode = tasks[i].arg.fan_mode
               /\ tasks[i].after.wind = VendorWind(tasks[i].arg.fan_mode)
               /\ tasks[i].rn.reqs # <<>>
               /\ \A k \in 1..Len(tasks[i].rn.reqs) :
                    tasks[i].rn.reqs[k].data.operation.wind
                        = VendorWind(tasks[i].arg.fan_mode)

\* async_set_fan_mode('medium') succeeded: 'mid' was sent and stored, and
\* fan_mode reads 'medium'.
C23_Witness ==
    \E i \in 1..Len(tasks) :
        /\ tasks[i].kind = "set_fan_mode" /\ SetterSucceeded(tasks[i])
        /\ tasks[i].arg.fan_mode = "medium"
        /\ tasks[i].after.wind = "mid"
        /\ tasks[i].rn.reqs[1].data.operation.wind = "mid"
        /\ ReadAfter(tasks[i]).fan_mode = "medium"

\* async_set_fan_mode('high') succeeded on the form fallback and fan_mode reads
\* 'high'.
C23_WitnessForm ==
    \E i \in 1..Len(tasks) :
        /\ tasks[i].kind = "set_fan_mode" /\ SetterSucceeded(tasks[i])
        /\ tasks[i].arg.fan_mode = "high"
        /\ Len(tasks[i].rn.reqs) = 2
        /\ ReadAfter(tasks[i]).fan_mode = "high"

\* A call of the fan setter or the temperature setter with an argument the
\* setter cannot use.
UnusableCall(tk) ==
    \/ tk.kind = "set_fan_mode" /\ tk.arg.fan_mode \notin {"low", "medium", "high", "auto"}
    \/ tk.kind = "set_temperature" /\ ~tk.arg.has_temperature

\* C24: a setter called with an unusable argument sends no control request,
\* asks for no coordinator refresh and leaves the device's record unchanged: the
\* record of a device on which only such calls were made is the record it had
\* at the start, and no request was sent for it.
C24_UnusableArgumentNoEffect ==
    /\ \A i \in 1..Len(tasks) :
        UnusableCall(tasks[i])
            => /\ tasks[i].stage = "done"
               /\ tasks[i].invoked = 0
               /\ tasks[i].rn.reqs = <<>>
               /\ ~tasks[i].refresh
               /\ tasks[i].after = tasks[i].base
    /\ \A d \in DeviceIds :
        (\A i \in 1..Len(tasks) : tasks[i].id = d => UnusableCall(tasks[i]))
            => /\ DeviceOf(coord.data, d) = DeviceOf(ClimateData, d)
               /\ wire[d].count = 0

\* Both kinds of unusable call were made on device 1: a fan mode outside the
\* four and a set_temperature without a temperature.
C24_Witness ==
    /\ Len(tasks) = 2
    /\ tasks[1].id = 1 /\ tasks[2].id = 1
    /\ tasks[1].kind = "set_fan_mode" /\ UnusableCall(tasks[1])
    /\ tasks[2].kind = "set_temperature" /\ UnusableCall(tasks[2])
    /\ DeviceOf(coord.data, 1) = DeviceOf(ClimateData, 1)

\* control_device raised inside the setter of call tk.
SetterFailed(tk) ==
    /\ tk.kind \in {"set_temperature", "set_hvac_mode", "set_fan_mode"}
    /\ tk.stage = "done" /\ tk.invoked = 1 /\ tk.rn.result = "raised"

\* The fields of the record the setters write.
SetterFields == {"setTemp", "mode", "power", "wind"}

\* C25: when control_device raises inside a setter, the setter does not let
\* the exception out, leaves the device's record (setTemp, mode, power, wind)
\* unchanged and asks for no coordinator refresh; the record of a device on
\* which every call failed or had an unusable argument is the record it had at
\* the start.
C25_FailedControlNoEffect ==
    /\ \A i \in 1..Len(tasks) :
        SetterFailed(tasks[i])
            => /\ ~tasks[i].propagated
               /\ ~tasks[i].refresh
               /\ \A f \in SetterFields : tasks[i].after[f] = tasks[i].before[f]
    /\ \A d \in DeviceIds :
        (\A i \in 1..Len(tasks) :
            tasks[i].id = d => SetterFailed(tasks[i]) \/ UnusableCall(tasks[i]))
            => \A f \in SetterFields :
                    DeviceOf(coord.data, d)[f] = DeviceOf(ClimateData, d)[f]

\* A mode setter ended after control_device raised on two failed requests, for
\* a mode other than the one the record holds.
C25_Witness ==
    \E i \in 1..Len(tasks) :
        /\ SetterFailed(tasks[i])
        /\ tasks[i].kind = "set_hvac_mode"
        /\ Len(tasks[i].rn.reqs) = 2
        /\ tasks[i].operation.mode # tasks[i].before.mode
        /\ DeviceOf(coord.data, tasks[i].id).mode = tasks[i].before.mode

\* A temperature setter ended after control_device raised 'Not authenticated'.
C25_WitnessNotAuthenticated ==
    \E i \in 1..Len(tasks) :
        /\ SetterFailed(tasks[i])
        /\ tasks[i].kind = "set_temperature"
        /\ tasks[i].rn.reqs = <<>>

-----------------------------------------------------------------------------
(* The properties of an entity, read over the device records a listing can
   hold: the coordinator's data are drawn from them and the entities write
   their state to the host. *)

VendorPowers == {"y", "n", "Y", "absent"}
VendorModes == {"cool", "heat", "dry", "fan_only", "fan", "off", "auto", "absent"}
VendorWinds == {"auto", "low", "mid", "high", "absent"}

VendorRecords ==
    {[Device(1) EXCEPT !.power = p, !.mode = m, !.wind = w] :
        p \in VendorPowers, m \in VendorModes, w \in VendorWinds}

InitEntity ==
    /\ api \in ClimateApis
    /\ now = StartTime
    /\ run = NoRun(api)
    /\ hist = NoHist
    /\ tc = NoTestConnection
    /\ flow = NoFlow
    /\ setup = NoSetup
    /\ hass = NoHass
    /\ coord \in {[NoCoordinator EXCEPT !.data = d] :
                    d \in {<<>>} \cup {<<r>> : r \in VendorRecords}
                          \cup {<<Device(2), r>> : r \in VendorRecords}}
    /\ tasks = <<>>
    /\ cloud = NoCloud
    /\ wire = NoWire
    /\ view = NoView
    /\ verdict = NoVerdict

\* async_write_ha_state of the entity of device id: the host reads the properties.
WriteHaState ==
    /\ \E id \in DeviceIds : view' = WrittenState(coord.data, id)
    /\ UNCHANGED <<apiVars, flowVars, setupVars, climateVars, verdict>>

NextEntity == WriteHaState

SpecEntity == InitEntity /\ [][NextEntity]_vars

\* The device's record as the entity reads it: a field the record lacks, or any
\* field when the coordinator lists no such record, reads as None.
Read(id, field) ==
    IF \E i \in 1..Len(coord.data) : coord.data[i].id = id
    THEN LET r == coord.data[CHOOSE i \in 1..Len(coord.data) : coord.data[i].id = id] IN
         IF r[field] = "absent" THEN "None" ELSE r[field]
    ELSE "None"

\* C11: the host-visible hvac mode of a device record is OFF if power is not
\* 'y'; if power is 'y', the vendor modes 'cool', 'heat', 'dry', 'fan_only'
\* give COOL, HEAT, DRY, FAN_ONLY, and any other or missing mode gives OFF.
C11_HvacModeOfRecord ==
    view.written =>
        /\ Read(view.id, "power") # "y" => view.hvac_mode = "off"
        /\ Read(view.id, "power") = "y" =>
            /\ Read(view.id, "mode") \in {"cool", "heat", "dry", "fan_only"}
                => view.hvac_mode = Read(view.id, "mode")
            /\ Read(view.id, "mode") \notin {"cool", "heat", "dry", "fan_only"}
                => view.hvac_mode = "off"

\* The entity wrote FAN_ONLY for a record that is on in vendor mode 'fan_only'.
C11_Witness ==
    /\ view.written
    /\ Read(view.id, "power") = "y"
    /\ Read(view.id, "mode") = "fan_only"
    /\ view.hvac_mode = "fan_only"

-----------------------------------------------------------------------------
(* The success tests applied to one response: the cloud answers with a
   response, and each attempt's test is applied to it. *)

InitVerdict ==
    /\ api = NewApi("a@x", "pw", DEFAULT_AVOID_REFRESH_STATUS_ON_UPDATE_IN_MS)
    /\ now = StartTime
    /\ run = NoRun(api)
    /\ hist = NoHist
    /\ tc = NoTestConnection
    /\ flow = NoFlow
    /\ setup = NoSetup
    /\ hass = NoHass
    /\ coord = NoCoordinator
    /\ tasks = <<>>
    /\ cloud = NoCloud
    /\ wire = NoWire
    /\ view = NoView
    /\ verdict \in {[NoVerdict EXCEPT !.r = r] : r \in LoginResponses}

ApplyTests ==
    /\ ~verdict.applied
    /\ verdict' = Verdicts(verdict.r)
    /\ UNCHANGED <<apiVars, flowVars, setupVars, climateVars, view>>

NextVerdict == ApplyTests

SpecVerdict == InitVerdict /\ [][NextVerdict]_vars

\* C17 as stated: a response that login's JSON attempt takes for a success is
\* taken for one by the JSON attempts of get_devices and control_device, and a
\* response an operation's JSON attempt takes for a success is taken for one by
\* that operation's form fallback.
C17_SameSuccessTest ==
    verdict.applied =>
        /\ verdict.login_json => verdict.list_json /\ verdict.control_json
        /\ verdict.login_json => verdict.login_form
        /\ verdict.control_json => verdict.control_form
        /\ verdict.list_json => verdict.list_form

\* The success indicators of the body of the response under test.
CodeIs(codes) == verdict.r.status = 200 /\ verdict.r.json /\ verdict.r.code \in codes
SuccessTrue == verdict.r.status = 200 /\ verdict.r.json /\ verdict.r.success
StatusSuccess == verdict.r.status = 200 /\ verdict.r.json /\ verdict.r.statusF

\* What the tests accept (C17): they differ, and only the converse inclusions
\* hold.
\* login's JSON attempt accepts code 0, '0', 200, '200', success true and status
\* 'success'; login's form fallback and the JSON attempts of get_devices and
\* control_device accept code 0, '0' and success true; the form fallbacks of
\* get_devices and control_device accept the number 0 as code only.  So what a
\* form fallback accepts its JSON attempt accepts, and what the JSON attempt of
\* get_devices or control_device accepts login's JSON attempt accepts.
C17_TestsNarrowDown ==
    verdict.applied =>
        /\ verdict.login_json
            <=> (CodeIs({"int0", "str0", "int200", "str200"}) \/ SuccessTrue
                    \/ StatusSuccess)
        /\ verdict.login_form <=> (CodeIs({"int0", "str0"}) \/ SuccessTrue)
        /\ verdict.control_json <=> (CodeIs({"int0", "str0"}) \/ SuccessTrue)
        /\ verdict.list_json <=> (CodeIs({"int0", "str0"}) \/ SuccessTrue)
        /\ verdict.control_form <=> CodeIs({"int0"})
        /\ verdict.list_form <=> CodeIs({"int0"})
        /\ verdict.control_form => verdict.control_json
        /\ verdict.list_form => verdict.list_json
        /\ verdict.login_form => verdict.login_json
        /\ verdict.control_json \/ verdict.list_json => verdict.login_json

\* The tests were applied to an HTTP 200 body with the string '0' as code: the
\* JSON attempts accept it, the form fallbacks of control_device and get_devices
\* do not.
C17_Witness ==
    /\ verdict.applied
    /\ CodeIs({"str0"})
    /\ verdict.login_json /\ verdict.control_json /\ verdict.list_json
    /\ ~verdict.control_form /\ ~verdict.list_form

====
